---- MODULE Spec2Model ----
(***************************************************************************)
(* A model of the import core of the game-backlog application: the         *)
(* owned-list page runner (GET /api/steam/owned), the batch-by-id and the  *)
(* reimport runners, the retry wrapper withRetryFetch, the client loop of  *)
(* ImportRunner and the single-item importer importOne.                    *)
(***************************************************************************)
EXTENDS Integers, Sequences, FiniteSets, TLC

\* ------------------------------------------------------------------ bounds

\* Longest owned-games list the upstream account API returns in the model.
MaxOwned == 3

\* ------------------------------------------------------- program constants

\* withRetryFetch(url, init, tries = 3, baseDelayMs = 250)
Tries == 3
BaseDelayMs == 250
\* limit = max(1, min(Number(limit || 250), 250))
DefaultLimit == 250
LimitCap == 250
\* concurrency = max(1, min(Number(concurrency || 5), 10))
DefaultConcurrency == 5
ConcurrencyCap == 10
\* samples[reason].length < 8
SampleCap == 8
\* ImportRunner: useState(4000) for the "backoff" query parameter
ClientBackoffMs == 4000

\* ------------------------------------------------------------ JS numbers

\* A JavaScript number as the routes use it: an integer or NaN.
NaN == [nan |-> TRUE, v |-> 0]
Num(n) == [nan |-> FALSE, v |-> n]

\* A query-string parameter: absent (or empty), non-numeric text, or digits.
QAbsent == [kind |-> "absent", v |-> 0]
QText == [kind |-> "text", v |-> 0]
QInt(n) == [kind |-> "int", v |-> n]

\* Number(searchParams.get(name) || dflt)
NumberOr(q, dflt) ==
  IF q.kind = "absent" THEN Num(dflt)
  ELSE IF q.kind = "text" THEN NaN
  ELSE Num(q.v)

\* Math.min / Math.max: NaN if either argument is NaN.
MathMin(a, b) ==
  IF a.nan \/ b.nan THEN NaN ELSE IF a.v <= b.v THEN a ELSE b
MathMax(a, b) ==
  IF a.nan \/ b.nan THEN NaN ELSE IF a.v >= b.v THEN a ELSE b

\* a + b and a < b on JS numbers: NaN is contagious and compares false.
JsAdd(a, b) == IF a.nan \/ b.nan THEN NaN ELSE Num(a.v + b.v)
JsLess(a, b) == ~a.nan /\ ~b.nan /\ a.v < b.v
\* x > 0 as used by the delay guards.
JsPositive(a) == ~a.nan /\ a.v > 0

\* ToIntegerOrInfinity of a slice bound, then clamped into 0..len.
SliceIndex(x, len) ==
  LET r == IF x.nan THEN 0 ELSE x.v
  IN  IF r < 0 THEN (IF len + r > 0 THEN len + r ELSE 0)
      ELSE IF r < len THEN r ELSE len

\* Array.prototype.slice(start, end) with JS-number bounds.
Slice(arr, start, end) ==
  LET k == SliceIndex(start, Len(arr))
      f == SliceIndex(end, Len(arr))
  IN  IF k >= f THEN <<>> ELSE SubSeq(arr, k + 1, f)

\* arr.filter(keep): the subsequence of the elements satisfying keep.
RECURSIVE FilterSeq(_, _)
FilterSeq(arr, keepSet) ==
  IF arr = <<>> THEN <<>>
  ELSE (IF Head(arr) \in keepSet THEN <<Head(arr)>> ELSE <<>>)
         \o FilterSeq(Tail(arr), keepSet)

Range(s) == {s[k] : k \in 1..Len(s)}

\* ------------------------------------------- owned route: pure functions

\* limit, offset, concurrency, itemDelayMs, pageDelayMs as GET parses them.
EffLimit(q) == MathMax(Num(1), MathMin(NumberOr(q, DefaultLimit), Num(LimitCap)))
EffOffset(q) == MathMax(Num(0), NumberOr(q, 0))
EffConcurrency(q) ==
  MathMax(Num(1), MathMin(NumberOr(q, DefaultConcurrency), Num(ConcurrencyCap)))
EffDelay(q) == MathMax(Num(0), NumberOr(q, 0))

\* chunk(arr, size): for (i = 0; i < arr.length; i += size) push(slice(i, i+size))
RECURSIVE ChunkFrom(_, _, _)
ChunkFrom(arr, i, size) ==
  IF ~JsLess(i, Num(Len(arr))) THEN <<>>
  ELSE <<Slice(arr, i, JsAdd(i, size))>> \o ChunkFrom(arr, JsAdd(i, size), size)

chunk(arr, size) == ChunkFrom(arr, Num(0), size)

\* owned = ownedAll.filter(g => !DO_NOT_IMPORT.has(g.appid))
EligibleOf_AfterSlice(all, deny) == all
EligibleOf(all, deny) == FilterSeq(all, Range(all) \ deny)

\* page = owned.slice(offset, offset + limit)
PageSlice(owned, offset, limit) == Slice(owned, offset, JsAdd(offset, limit))

\* nextOffset = offset + processed
NextOffsetOf_CountOnly(offset, processed) == Num(processed)
NextOffsetOf(offset, processed) == JsAdd(offset, Num(processed))

\* hasMore = nextOffset < owned.length
HasMoreOf_Inclusive(nextOffset, owned) ==
  ~nextOffset.nan /\ nextOffset.v <= Len(owned)
HasMoreOf(nextOffset, owned) == JsLess(nextOffset, Num(Len(owned)))

\* ------------------------------------------------------- withRetryFetch

\* What fetch() produced on one attempt: a response or a thrown network error.
Thrown == [kind |-> "throw", status |-> 0, code |-> "", error |-> "",
           details |-> "", text |-> "fetch failed"]
Response(status, code, error, details, text) ==
  [kind |-> "response", status |-> status, code |-> code, error |-> error,
   details |-> details, text |-> text]

\* One pass of the loop body of withRetryFetch at attempt index i (0-based):
\* sleep and go round again, return the response, or throw lastErr.
withRetryFetch_AnyError(i, o) ==
  IF o.kind = "response"
  THEN IF o.status >= 400 /\ i < Tries - 1
       THEN [act |-> "sleep", ms |-> BaseDelayMs * 2^i]
       ELSE [act |-> "return", ms |-> 0]
  ELSE IF i = Tries - 1
       THEN [act |-> "throw", ms |-> 0]
       ELSE [act |-> "sleep", ms |-> BaseDelayMs * 2^i]
withRetryFetch_ThrowsLast(i, o) ==
  IF i = Tries - 1
  THEN IF o.kind = "response" /\ o.status < 500
       THEN [act |-> "return", ms |-> 0]
       ELSE [act |-> "throw", ms |-> 0]
  ELSE IF o.kind = "response" /\ o.status < 500
       THEN [act |-> "return", ms |-> 0]
       ELSE [act |-> "sleep", ms |-> BaseDelayMs * 2^i]
withRetryFetch(i, o) ==
  IF o.kind = "response"
  THEN IF o.status >= 500 /\ i < Tries - 1
       THEN [act |-> "sleep", ms |-> BaseDelayMs * 2^i]
       ELSE [act |-> "return", ms |-> 0]
  ELSE IF i = Tries - 1
       THEN [act |-> "throw", ms |-> 0]
       ELSE [act |-> "sleep", ms |-> BaseDelayMs * 2^i]

\* ------------------------------------- responses of /api/steam/import

RespOk == Response(200, "", "", "", "ok")
RespNoData == Response(422, "NO_APPDETAILS", "Import skipped",
                       "Steam appdetails returned no data for appId", "json")
RespDenyApp == Response(422, "DENYLISTED_APP", "Import skipped", "appId", "json")
RespDenySlug == Response(422, "DENYLISTED_SLUG", "Import skipped", "slug", "json")
RespDuplicate == Response(409, "P2002", "Duplicate", "", "json")
RespBadId == Response(400, "", "Missing or invalid appId", "", "json")
RespFailed == Response(500, "", "Import failed", "storage error", "json")

\* res.ok
IsOk(res) == res.status >= 200 /\ res.status <= 299

\* bodyStr = json?.code || json?.error || json?.details || text || ""
BodyStr(res) ==
  IF res.code # "" THEN res.code
  ELSE IF res.error # "" THEN res.error
  ELSE IF res.details # "" THEN res.details
  ELSE res.text

\* t.toLowerCase().includes(phrase) for the body strings of the model.
NoDataPhrases == {"no_appdetails", "appdetails returned no data",
                  "returned no data for appid", "no data for appid"}
LowerIncludes(t, phrase) ==
  \/ t = "NO_APPDETAILS" /\ phrase = "no_appdetails"
  \/ t = "Steam appdetails returned no data for appId"
       /\ phrase \in {"appdetails returned no data",
                      "returned no data for appid", "no data for appid"}
  \/ t = "DENYLISTED_APP" /\ phrase = "denylisted_app"
  \/ t = "DENYLISTED_SLUG" /\ phrase = "denylisted_slug"

\* skipReason(status, bodyStr) of the owned route; "" stands for null.
skipReason_DuplicateOnly(status, bodyStr) ==
  IF status = 409 THEN "ALREADY_IMPORTED" ELSE ""
skipReason(status, bodyStr) ==
  IF status = 409 THEN "ALREADY_IMPORTED"
  ELSE IF status = 404 \/ status = 422 THEN "NO_APPDETAILS"
  ELSE IF \E ph \in NoDataPhrases : LowerIncludes(bodyStr, ph) THEN "NO_APPDETAILS"
  ELSE ""

\* ------------------------------------------------------------ the state

VARIABLES
  DO_NOT_IMPORT,  \* lib/denylist: the denied app ids (fixed for a run)
  rq,             \* the request of the running handler
  opc,            \* where the handler is
  loc,            \* the handler's locals once the list of ids is there
  gi,             \* index of the group being processed (0: none yet)
  mst,            \* per app id of the page: the state of its async member
  imported,       \* accumulator: ids imported
  skipped,        \* accumulator: ids skipped
  errors,         \* accumulator: error records
  skipBreakdown,  \* verbose counters per skip reason
  samples,        \* verbose samples per skip reason
  resp,           \* the response returned to the caller
  waits           \* history: ms slept after each finished group

runnerVars == <<DO_NOT_IMPORT, rq, opc, loc, gi, mst, imported, skipped, errors,
                skipBreakdown, samples, resp, waits>>

\* One call of withRetryFetch, taken by itself.
VARIABLES
  rpc,            \* "idle", "fetch", "sleep", "returned", "thrown"
  ri,             \* the loop index i
  attempts,       \* history: what fetch() produced on each attempt
  sleeps,         \* history: ms slept between attempts
  rres            \* the response returned, or lastErr thrown

retryVars == <<rpc, ri, attempts, sleeps, rres>>

RetryIdle ==
  /\ rpc = "idle" /\ ri = 0 /\ attempts = <<>> /\ sleeps = <<>> /\ rres = <<>>

\* The ImportRunner component (the browser client of /api/steam/owned).
VARIABLES
  steamOwned,     \* the account's owned list as Steam returns it (stable)
  climit,         \* the form's limit state
  cpc,            \* "idle", "fetching", "ended": where run() stands
  running,        \* the running state flag
  coffset,        \* run()'s local offset
  firstPass,      \* run()'s local firstPass
  stats,          \* the stats state
  lastLine,       \* the last line appended to the log
  calls           \* history: the page calls run() made and what came back

clientVars == <<steamOwned, climit, cpc, running, coffset, firstPass,
                stats, lastLine, calls>>

ZeroStats == [total |-> [nan |-> FALSE, v |-> 0], imported |-> [nan |-> FALSE, v |-> 0],
              skipped |-> [nan |-> FALSE, v |-> 0], errors |-> [nan |-> FALSE, v |-> 0]]

ClientIdle ==
  /\ steamOwned = <<>> /\ climit = 0 /\ cpc = "idle" /\ running = FALSE
  /\ coffset = [nan |-> FALSE, v |-> 0] /\ firstPass = TRUE
  /\ stats = ZeroStats /\ lastLine = "" /\ calls = <<>>

\* The single-item importer (/api/steam/import) and the store behind it.
VARIABLES
  DO_NOT_IMPORT_SLUGS, \* lib/denylist: the denied slugs
  variant,        \* the route deployed: "denylist" (part_004), "debug"
                  \* (import/route.ts, importOne) or "legacy" (its first GET)
  lib,            \* the lib/normalizers deployed: "normalizers" or "part_011"
  ireq,           \* the request being served: [appId, debug]
  ipc,            \* "idle", "fetchDetails", "fetchReviews", "transaction", "done"
  idata,          \* importOne's local d (the unwrapped details)
  nimports,       \* requests received so far
  net,            \* history: upstream calls issued for the current request
  writes,         \* history: storage writes issued for the current request
  tx,             \* the open transaction: the statement it is at and the
                  \* tables as the transaction sees them
  prev,           \* history: the previous request, its answer and the store
                  \* it left
  ievent,         \* history: what ended the current request: "" (nothing
                  \* yet, or a check of the route), "fetch" (fetchAppDetails
                  \* threw), "nodata", "seed" (the seeding failed), "P2002",
                  \* "tx" (the transaction failed otherwise), "commit"
  games,          \* table Game: steamAppId -> row
  shotRows,       \* table Screenshot: steamAppId -> rows in sortIndex order
  terms,          \* table Tag: names
  links,          \* table GameTag: <<steamAppId, name>>
  ires            \* the response of the current request

importVars == <<DO_NOT_IMPORT_SLUGS, variant, lib, ireq, ipc, idata, nimports,
                net, writes, tx, games, shotRows, terms, links, ires, prev,
                ievent>>

NoTerms == [tags |-> {}, platforms |-> {}]
NoTx == [pc |-> 0, games |-> <<>>, links |-> NoTerms, shotRows |-> <<>>,
         terms |-> NoTerms]
NoPrev == [appId |-> 0, data |-> <<>>, status |-> 0, games |-> <<>>,
           shotRows |-> <<>>, terms |-> NoTerms, links |-> NoTerms]

ImportIdle ==
  /\ DO_NOT_IMPORT_SLUGS = {} /\ variant = "denylist" /\ lib = "normalizers"
  /\ ireq = <<>>
  /\ ipc = "idle" /\ idata = <<>> /\ nimports = 0 /\ net = <<>> /\ writes = <<>>
  /\ tx = NoTx /\ games = <<>> /\ shotRows = <<>>
  /\ terms = NoTerms
  /\ links = NoTerms
  /\ ires = <<>> /\ prev = NoPrev /\ ievent = ""

\* Imports of one id running at the same time, and the Game table they
\* write to.
VARIABLES
  rrows,          \* table Game: the committed rows, in insertion order
  rp              \* per import: where it is, what its upsert found, its
                  \* payload, its uncommitted row and its answer

raceVars == <<rrows, rp>>

RaceIdle == rrows = <<>> /\ rp = <<>>

\* One call of fetchAppDetails (lib/steam.ts), taken by itself.
VARIABLES
  dpc,            \* "idle", "request", "sleep", "finalSleep", "finalRequest",
                  \* "returned", "thrown"
  di,             \* the loop index i
  dlast,          \* last.status
  dreqs,          \* history: the requests issued: [fields, cookies]
  dresps,         \* history: what getText produced for each request
  dsleeps,        \* history: the sleeps: [after, ms], after = number of
                  \* requests settled before the sleep
  dret            \* what fetchAppDetails returned

detailVars == <<dpc, di, dlast, dreqs, dresps, dsleeps, dret>>

DetailIdle ==
  /\ dpc = "idle" /\ di = 0 /\ dlast = 0 /\ dreqs = <<>> /\ dresps = <<>>
  /\ dsleeps = <<>> /\ dret = <<>>

\* ImportRunner with its stop button: the run loops started so far.
VARIABLES
  sloops,         \* per call of run(), in order: where the loop stands ("fetch":
                  \* awaiting fetch, "json": awaiting res.json(), "ended"),
                  \* the controller whose signal its outstanding fetch took
                  \* (0: none), and its locals
  abortRef,       \* abortRef.current: the controller of run() number k, 0: null
  aborted,        \* the controllers on which abort() was called
  srunning,       \* the running state flag
  sstats,         \* the stats state
  slog,           \* history: the page requests issued: [loop, sig, offset,
                  \* stopped], stopped = the loop's own controller was aborted
  satStop         \* history: per aborted controller, the stats when stop() ran

stopVars == <<sloops, abortRef, aborted, srunning, sstats, slog, satStop>>

NoCounts == [total |-> 0, imported |-> 0, skipped |-> 0, errors |-> 0]

StopIdle ==
  /\ sloops = <<>> /\ abortRef = 0 /\ aborted = {} /\ srunning = FALSE
  /\ sstats = NoCounts /\ slog = <<>> /\ satStop = <<>>

\* normalizeGame called for the items of one import session.
VARIABLES
  nlib,           \* the file normalizeGame comes from: "normalizers"
                  \* (lib/normalizers.ts), "part_010" or "part_011"
  ncalls          \* history: per call its appId, the name of the details
                  \* and the title and slug returned

slugVars == <<nlib, ncalls>>

SlugIdle == nlib = "normalizers" /\ ncalls = <<>>

\* Imports running at the same time, and the vocabulary and link tables they
\* share.
VARIABLES
  sp,             \* per import, in order of arrival: where importOne stands,
                  \* its appId, the names it normalized, the rows its
                  \* findMany returned and the link rows its open
                  \* transaction has written
  sterms,         \* tables Tag and Platform: the committed names
  slinks          \* tables GameTag and GamePlatform: <<appId, name>>

seedVars == <<sp, sterms, slinks>>

SeedIdle == sp = <<>> /\ sterms = NoTerms /\ slinks = NoTerms

otherVars == <<detailVars, stopVars, slugVars, seedVars>>
OtherIdle == DetailIdle /\ StopIdle /\ SlugIdle /\ SeedIdle

auxVars == <<retryVars, clientVars, importVars, raceVars, otherVars>>
AuxIdle == RetryIdle /\ ClientIdle /\ ImportIdle /\ RaceIdle /\ OtherIdle

vars == <<runnerVars, auxVars>>

\* --------------------------------------------------- inputs of the model

\* The shipped denylist is empty, with one commented example entry; the model
\* runs with the shipped set and with one denied id.
DenylistChoices == {{}, {2}}

\* The owned list Steam returns: one entry per app, ids 1..n.
OwnedLists == {[k \in 1..n |-> k] : n \in 0..MaxOwned}

LimitQueries == {QAbsent, QText, QInt(0), QInt(2), QInt(251)}
OffsetQueries == {QAbsent, QText, QInt(-1), QInt(2), QInt(4)}
ConcurrencyQueries == {QAbsent, QText, QInt(0), QInt(2), QInt(11)}
DelayQueries == {QAbsent, QInt(400)}

OwnedRq(key, steamId, l, o, c, idl, pdl, vb, bo) ==
  [runner |-> "owned", key |-> key, steamId |-> steamId, limit |-> l,
   offset |-> o, concurrency |-> c, itemDelayMs |-> idl, pageDelayMs |-> pdl,
   verbose |-> vb, backoff |-> bo]

\* Requests as the three callers make them: ImportRunner (limit, offset,
\* concurrency, delay, backoff), app/import/owned/page.tsx (limit, offset,
\* verbose=1, concurrency) and the documented direct form with itemDelayMs and
\* pageDelayMs; plus the two requests lacking a prerequisite.
OwnedRequests ==
  {OwnedRq(TRUE, TRUE, l, QAbsent, QInt(2), QAbsent, QAbsent, FALSE,
           ClientBackoffMs) : l \in LimitQueries}
  \cup {OwnedRq(TRUE, TRUE, QInt(2), o, QInt(2), QAbsent, QAbsent, FALSE,
                ClientBackoffMs) : o \in OffsetQueries}
  \cup {OwnedRq(TRUE, TRUE, QInt(3), QAbsent, c, QAbsent, QAbsent, FALSE,
                ClientBackoffMs) : c \in ConcurrencyQueries \ {QInt(11)}}
  \cup {OwnedRq(TRUE, TRUE, QInt(2), QAbsent, QInt(11), QAbsent, QAbsent, FALSE,
                ClientBackoffMs)}
  \cup {OwnedRq(TRUE, TRUE, QInt(2), QAbsent, QInt(2), QAbsent, QAbsent, TRUE, 0)}
  \cup {OwnedRq(TRUE, TRUE, QInt(3), QAbsent, QInt(2), idl, pdl, FALSE, 0) :
          idl \in DelayQueries, pdl \in DelayQueries}
  \cup {OwnedRq(FALSE, TRUE, QAbsent, QAbsent, QAbsent, QAbsent, QAbsent, FALSE, 0),
        OwnedRq(TRUE, FALSE, QAbsent, QAbsent, QAbsent, QAbsent, QAbsent, FALSE, 0)}

\* What one call of /api/steam/import may come back with.
ImportOutcomes == {RespOk, RespNoData, RespDuplicate, RespFailed, Thrown}

\* ------------------------------------------------ shared runner pieces

NoRes == Response(0, "", "", "", "")
NotStarted == [pc |-> "pending", i |-> 0, res |-> NoRes, out |-> ""]
Started == [pc |-> "fetch", i |-> 0, res |-> NoRes, out |-> ""]

NoLoc == [limit |-> Num(0), offset |-> Num(0), concurrency |-> Num(0),
          itemDelayMs |-> Num(0), pageDelayMs |-> Num(0),
          all |-> <<>>, owned |-> <<>>, page |-> <<>>, processed |-> 0,
          nextOffset |-> Num(0), hasMore |-> FALSE, denylistedCount |-> 0,
          groups |-> <<>>]

NoBreakdown == [ALREADY_IMPORTED |-> 0, NO_APPDETAILS |-> 0, SKIP_OTHER |-> 0]
NoSamples == [ALREADY_IMPORTED |-> <<>>, NO_APPDETAILS |-> <<>>, SKIP_OTHER |-> <<>>]

NoPayload == [total |-> 0, requested |-> 0,
              limit |-> Num(0), offset |-> Num(0), nextOffset |-> Num(0),
              hasMore |-> FALSE, totalOwned |-> 0, eligibleOwned |-> 0,
              denylistedCount |-> 0, processed |-> 0, importedCount |-> 0,
              skippedCount |-> 0, errorCount |-> 0, imported |-> <<>>,
              skipped |-> <<>>, errors |-> <<>>, verbose |-> FALSE,
              skipBreakdown |-> NoBreakdown, skipSamples |-> NoSamples]
NoResp == [status |-> 0, error |-> "", body |-> NoPayload]
ErrorResp(status, error) == [status |-> status, error |-> error, body |-> NoPayload]

\* group.map(async ...) : every member of the group runs up to its fetch.
Launch_All(m, group) ==
  [a \in DOMAIN m |-> IF m[a].pc = "pending" THEN Started ELSE m[a]]
Launch(m, group) ==
  [a \in DOMAIN m |-> IF a \in Range(group) THEN Started ELSE m[a]]

\* The members of the group in progress.
CurrentGroup == IF gi = 0 THEN <<>> ELSE loc.groups[gi]

\* Members whose request to /api/steam/import is outstanding or being retried.
InFlight == {a \in DOMAIN mst : mst[a].pc \in {"fetch", "retrySleep", "readBody"}}
Settled(a) == mst[a].pc = "settled"

\* await Promise.all(group.map(...)): every member's promise has resolved.
GroupDone_Any(group) == \E a \in Range(group) : Settled(a)
GroupDone(group) == \A a \in Range(group) : Settled(a)

InitRunnerVars ==
  /\ opc = "init"
  /\ loc = NoLoc
  /\ gi = 0
  /\ mst = <<>>
  /\ imported = <<>>
  /\ skipped = <<>>
  /\ errors = <<>>
  /\ skipBreakdown = NoBreakdown
  /\ samples = NoSamples
  /\ resp = NoResp
  /\ waits = <<>>

InitRunner == InitRunnerVars /\ AuxIdle

\* ------------------------------------------- GET /api/steam/owned (route)

\* The payload of the 200 response.
OwnedPayload(l) ==
  [total |-> 0, requested |-> 0, limit |-> l.limit, offset |-> l.offset, nextOffset |-> l.nextOffset,
   hasMore |-> l.hasMore, totalOwned |-> Len(l.all),
   eligibleOwned |-> Len(l.owned), denylistedCount |-> l.denylistedCount,
   processed |-> l.processed, importedCount |-> Len(imported),
   skippedCount |-> Len(skipped), errorCount |-> Len(errors),
   imported |-> imported, skipped |-> skipped, errors |-> errors,
   verbose |-> rq.verbose,
   skipBreakdown |-> IF rq.verbose THEN skipBreakdown ELSE NoBreakdown,
   skipSamples |-> IF rq.verbose THEN samples ELSE NoSamples]

\* The locals GET computes between the owned-list fetch and the group loop.
OwnedLocals(r, list, deny) ==
  LET limit == EffLimit(r.limit)
      offset == EffOffset(r.offset)
      concurrency == EffConcurrency(r.concurrency)
      owned == EligibleOf(list, deny)
      page == PageSlice(owned, offset, limit)
      nextOffset == NextOffsetOf(offset, Len(page))
  IN  [limit |-> limit, offset |-> offset, concurrency |-> concurrency,
       itemDelayMs |-> EffDelay(r.itemDelayMs),
       pageDelayMs |-> EffDelay(r.pageDelayMs),
       all |-> list, owned |-> owned, page |-> page, processed |-> Len(page),
       nextOffset |-> nextOffset, hasMore |-> HasMoreOf(nextOffset, owned),
       denylistedCount |-> Len(list) - Len(owned),
       groups |-> chunk(page, concurrency)]

\* The request arrives: the credential and the account id are checked, the
\* query is parsed and the owned list is requested.
OwnedReceive ==
  /\ rq.runner = "owned" /\ opc = "init"
  /\ IF ~rq.key
     THEN /\ resp' = ErrorResp(500, "Missing STEAM_WEB_API_KEY")
          /\ opc' = "done"
     ELSE IF ~rq.steamId
     THEN /\ resp' = ErrorResp(400, "Missing steamId")
          /\ opc' = "done"
     ELSE /\ opc' = "awaitOwned"
          /\ UNCHANGED resp
  /\ UNCHANGED <<auxVars, DO_NOT_IMPORT, rq, loc, gi, mst, imported, skipped, errors,
                 skipBreakdown, samples, waits>>

\* fetchOwnedGames throws (Steam answered non-ok, or the network failed): the
\* outer catch answers 500.
OwnedListFails ==
  /\ rq.runner = "owned" /\ opc = "awaitOwned"
  /\ resp' = ErrorResp(500, "Owned import failed")
  /\ opc' = "done"
  /\ UNCHANGED <<auxVars, DO_NOT_IMPORT, rq, loc, gi, mst, imported, skipped, errors,
                 skipBreakdown, samples, waits>>

\* After a group (and its delay): the for-loop takes the next group and starts
\* its members, or the loop is over and the 200 payload is returned.
OwnedAdvance(l, g, m) ==
  IF g < Len(l.groups)
  THEN /\ gi' = g + 1
       /\ mst' = Launch(m, l.groups[g + 1])
       /\ opc' = "running"
       /\ UNCHANGED resp
  ELSE /\ gi' = g
       /\ mst' = m
       /\ opc' = "done"
       /\ resp' = [status |-> 200, error |-> "", body |-> OwnedPayload(l)]

\* The owned list arrives: denylist filter, page slice, cursor, chunking, and
\* the first group is started.
OwnedListArrivesWith(list) ==
  /\ rq.runner = "owned" /\ opc = "awaitOwned"
  /\ loc' = OwnedLocals(rq, list, DO_NOT_IMPORT)
  /\ OwnedAdvance(loc', 0, [a \in Range(loc'.page) |-> NotStarted])
  /\ UNCHANGED <<auxVars, DO_NOT_IMPORT, rq, imported, skipped, errors, skipBreakdown,
                 samples, waits>>
OwnedListArrives == \E list \in OwnedLists : OwnedListArrivesWith(list)

\* After handleOnce: if (itemDelayMs > 0) await sleep(itemDelayMs).
AfterHandleOnce(a, out) ==
  [pc |-> IF JsPositive(loc.itemDelayMs) THEN "itemDelay" ELSE "settled",
   i |-> mst[a].i, res |-> NoRes, out |-> out]

\* The fetch of member a settles with outcome o; withRetryFetch decides.
OwnedFetchSettlesWith(a, o) ==
  /\ rq.runner = "owned" /\ opc = "running"
  /\ mst[a].pc = "fetch"
  /\ LET d == withRetryFetch(mst[a].i, o)
     IN  \/ /\ d.act = "sleep"
            /\ mst' = [mst EXCEPT ![a].pc = "retrySleep"]
            /\ UNCHANGED <<imported, errors>>
         \/ /\ d.act = "return" /\ IsOk(o)
            /\ imported' = Append(imported, a)
            /\ mst' = [mst EXCEPT ![a] = AfterHandleOnce(a, "imported")]
            /\ UNCHANGED errors
         \/ /\ d.act = "return" /\ ~IsOk(o)
            /\ mst' = [mst EXCEPT ![a].pc = "readBody", ![a].res = o]
            /\ UNCHANGED <<imported, errors>>
         \/ /\ d.act = "throw"
            /\ errors' = Append(errors,
                 [appId |-> a, status |-> <<>>, message |-> o.text])
            /\ mst' = [mst EXCEPT ![a] =
                 [pc |-> "settled", i |-> mst[a].i, res |-> NoRes, out |-> "error"]]
            /\ UNCHANGED imported
  /\ UNCHANGED <<DO_NOT_IMPORT, rq, opc, loc, gi, skipped, skipBreakdown,
                 samples, resp, waits>>
OwnedFetchSettles(a, o) == OwnedFetchSettlesWith(a, o) /\ UNCHANGED auxVars

\* The backoff sleep of withRetryFetch is over: the next attempt is made.
OwnedRetryElapsed(a) ==
  /\ rq.runner = "owned" /\ opc = "running"
  /\ mst[a].pc = "retrySleep"
  /\ mst' = [mst EXCEPT ![a].pc = "fetch", ![a].i = mst[a].i + 1]
  /\ UNCHANGED <<auxVars, DO_NOT_IMPORT, rq, opc, loc, gi, imported, skipped, errors,
                 skipBreakdown, samples, resp, waits>>

\* samples[reason].length < 8
SampleRoom_Always(list) == TRUE
SampleRoom(list) == Len(list) < SampleCap

\* readBody is done: handleOnce classifies the non-ok response.
OwnedBodyRead(a) ==
  /\ rq.runner = "owned" /\ opc = "running"
  /\ mst[a].pc = "readBody"
  /\ LET res == mst[a].res
         bodyStr == BodyStr(res)
         reason == skipReason(res.status, bodyStr)
     IN  IF reason # ""
         THEN /\ skipped' = Append(skipped, a)
              /\ skipBreakdown' = [skipBreakdown EXCEPT ![reason] = @ + 1]
              /\ samples' =
                   IF rq.verbose /\ SampleRoom(samples[reason])
                   THEN [samples EXCEPT ![reason] = Append(@,
                          [appId |-> a, status |-> res.status, message |-> bodyStr])]
                   ELSE samples
              /\ mst' = [mst EXCEPT ![a] = AfterHandleOnce(a, reason)]
              /\ UNCHANGED errors
         ELSE /\ errors' = Append(errors,
                   [appId |-> a, status |-> <<res.status>>,
                    message |-> IF bodyStr # "" THEN bodyStr ELSE "Import failed"])
              /\ mst' = [mst EXCEPT ![a] = AfterHandleOnce(a, "error")]
              /\ UNCHANGED <<skipped, skipBreakdown, samples>>
  /\ UNCHANGED <<auxVars, DO_NOT_IMPORT, rq, opc, loc, gi, imported, resp, waits>>

\* The per-item delay of member a is over.
OwnedItemDelayElapsed(a) ==
  /\ rq.runner = "owned" /\ opc = "running"
  /\ mst[a].pc = "itemDelay"
  /\ mst' = [mst EXCEPT ![a].pc = "settled"]
  /\ UNCHANGED <<auxVars, DO_NOT_IMPORT, rq, opc, loc, gi, imported, skipped, errors,
                 skipBreakdown, samples, resp, waits>>

\* Promise.all of the group resolves: sleep pageDelayMs if it is positive,
\* else go straight on.
OwnedGroupSettled ==
  /\ rq.runner = "owned" /\ opc = "running"
  /\ GroupDone(CurrentGroup)
  /\ IF JsPositive(loc.pageDelayMs)
     THEN /\ opc' = "pageDelay"
          /\ UNCHANGED <<gi, mst, resp, waits>>
     ELSE /\ waits' = Append(waits, 0)
          /\ OwnedAdvance(loc, gi, mst)
  /\ UNCHANGED <<auxVars, DO_NOT_IMPORT, rq, loc, imported, skipped, errors,
                 skipBreakdown, samples>>

\* The delay between groups is over.
OwnedPageDelayElapsed ==
  /\ rq.runner = "owned" /\ opc = "pageDelay"
  /\ waits' = Append(waits, loc.pageDelayMs.v)
  /\ OwnedAdvance(loc, gi, mst)
  /\ UNCHANGED <<auxVars, DO_NOT_IMPORT, rq, loc, imported, skipped, errors,
                 skipBreakdown, samples>>

NextOwned ==
  \/ OwnedReceive
  \/ OwnedListFails
  \/ OwnedListArrives
  \/ \E a \in DOMAIN mst, o \in ImportOutcomes : OwnedFetchSettles(a, o)
  \/ \E a \in DOMAIN mst : OwnedRetryElapsed(a)
  \/ \E a \in DOMAIN mst : OwnedBodyRead(a)
  \/ \E a \in DOMAIN mst : OwnedItemDelayElapsed(a)
  \/ OwnedGroupSettled
  \/ OwnedPageDelayElapsed

InitOwned ==
  InitRunner /\ rq \in OwnedRequests /\ DO_NOT_IMPORT \in DenylistChoices

SpecOwned == InitOwned /\ [][NextOwned]_vars

\* ------------------------------- POST /api/steam/import/batch (part_005)

\* A JSON value of the request body: a number, or something that is not one.
JNum(n) == [num |-> TRUE, v |-> n]
JText == [num |-> FALSE, v |-> 0]

\* rawIds.filter(isFiniteNumber).filter(n => n > 0), then dedupeNums: the
\* first occurrence of each id, in order.
RECURSIVE ValidIds(_, _)
ValidIds(raw, seen) ==
  IF raw = <<>> THEN <<>>
  ELSE LET h == Head(raw)
           keep == h.num /\ h.v > 0 /\ h.v \notin seen
       IN  (IF keep THEN <<h.v>> ELSE <<>>)
             \o ValidIds(Tail(raw), IF keep THEN seen \cup {h.v} ELSE seen)

\* Number(body.concurrency ?? 8): only an absent value takes the default.
BatchDefaultConcurrency == 8
BatchConcurrencyCap == 20
BatchConcurrency(q) ==
  MathMax(Num(1), MathMin(NumberOr(q, BatchDefaultConcurrency),
                          Num(BatchConcurrencyCap)))

\* shouldSkip(status, bodyStr) of the batch route.
shouldSkipBatch(status, bodyStr) ==
  \/ status = 409 \/ status = 404 \/ status = 422
  \/ \E ph \in NoDataPhrases \cup {"denylisted_app", "denylisted_slug"} :
       LowerIncludes(bodyStr, ph)

BatchRq(ids, c) == [runner |-> "batch", appIds |-> ids, concurrency |-> c,
                    verbose |-> FALSE]

BatchBodies ==
  {<<>>, <<JNum(0), JText>>, <<JNum(1)>>, <<JNum(1), JNum(1), JNum(2)>>}
  \cup {[k \in 1..MaxOwned |-> JNum(k)]}

BatchRequests ==
  {BatchRq(ids, c) : ids \in BatchBodies, c \in {QAbsent, QText, QInt(0), QInt(2)}}

BatchPayload(l) ==
  [NoPayload EXCEPT !.total = Len(l.all), !.requested = Len(l.all),
     !.processed = l.processed, !.importedCount = Len(imported),
     !.skippedCount = Len(skipped), !.errorCount = Len(errors),
     !.denylistedCount = l.denylistedCount, !.imported = imported,
     !.skipped = skipped, !.errors = errors]

\* for (i = 0; i < allowedIds.length; i += concurrency): the next group is
\* sliced and started, or the loop is over and the result is returned.
BatchAdvance(l, g, m) ==
  IF g < Len(l.groups)
  THEN /\ gi' = g + 1
       /\ mst' = Launch(m, l.groups[g + 1])
       /\ opc' = "running"
       /\ UNCHANGED resp
  ELSE /\ gi' = g
       /\ mst' = m
       /\ opc' = "done"
       /\ resp' = [status |-> 200, error |-> "", body |-> BatchPayload(l)]

\* The handler up to its first await inside the loop: the body is parsed, the
\* ids validated, the denylist applied and the first group started.
BatchReceive ==
  /\ rq.runner = "batch" /\ opc = "init"
  /\ LET appIds == ValidIds(rq.appIds, {})
         allowedIds == EligibleOf(appIds, DO_NOT_IMPORT)
         concurrency == BatchConcurrency(rq.concurrency)
         l == [NoLoc EXCEPT !.concurrency = concurrency, !.all = appIds,
                 !.owned = allowedIds, !.page = allowedIds,
                 !.processed = Len(allowedIds),
                 !.denylistedCount = Len(appIds) - Len(allowedIds),
                 !.groups = chunk(allowedIds, concurrency)]
     IN  IF appIds = <<>>
         THEN /\ resp' = ErrorResp(400, "Provide appIds")
              /\ opc' = "done"
              /\ UNCHANGED <<loc, gi, mst>>
         ELSE /\ loc' = l
              /\ BatchAdvance(l, 0, [a \in Range(allowedIds) |-> NotStarted])
  /\ UNCHANGED <<auxVars, DO_NOT_IMPORT, rq, imported, skipped, errors, skipBreakdown,
                 samples, waits>>

\* The fetch of member a settles with outcome o.
BatchFetchSettles(a, o) ==
  /\ rq.runner = "batch" /\ opc = "running"
  /\ mst[a].pc = "fetch"
  /\ LET d == withRetryFetch(mst[a].i, o)
         done(out) == [pc |-> "settled", i |-> mst[a].i, res |-> NoRes, out |-> out]
     IN  \/ /\ d.act = "sleep"
            /\ mst' = [mst EXCEPT ![a].pc = "retrySleep"]
            /\ UNCHANGED <<imported, errors>>
         \/ /\ d.act = "return" /\ IsOk(o)
            /\ imported' = Append(imported, a)
            /\ mst' = [mst EXCEPT ![a] = done("imported")]
            /\ UNCHANGED errors
         \/ /\ d.act = "return" /\ ~IsOk(o)
            /\ mst' = [mst EXCEPT ![a].pc = "readBody", ![a].res = o]
            /\ UNCHANGED <<imported, errors>>
         \/ /\ d.act = "throw"
            /\ errors' = Append(errors,
                 [appId |-> a, status |-> <<>>, message |-> o.text])
            /\ mst' = [mst EXCEPT ![a] = done("error")]
            /\ UNCHANGED imported
  /\ UNCHANGED <<auxVars, DO_NOT_IMPORT, rq, opc, loc, gi, skipped, skipBreakdown,
                 samples, resp, waits>>

BatchRetryElapsed(a) ==
  /\ rq.runner = "batch" /\ opc = "running"
  /\ mst[a].pc = "retrySleep"
  /\ mst' = [mst EXCEPT ![a].pc = "fetch", ![a].i = mst[a].i + 1]
  /\ UNCHANGED <<auxVars, DO_NOT_IMPORT, rq, opc, loc, gi, imported, skipped, errors,
                 skipBreakdown, samples, resp, waits>>

\* readBody is done: the member pushes its id to skipped or to errors.
BatchBodyRead(a) ==
  /\ rq.runner = "batch" /\ opc = "running"
  /\ mst[a].pc = "readBody"
  /\ LET res == mst[a].res
         bodyStr == BodyStr(res)
         done(out) == [pc |-> "settled", i |-> mst[a].i, res |-> NoRes, out |-> out]
     IN  IF shouldSkipBatch(res.status, bodyStr)
         THEN /\ skipped' = Append(skipped, a)
              /\ mst' = [mst EXCEPT ![a] = done("skipped")]
              /\ UNCHANGED errors
         ELSE /\ errors' = Append(errors,
                   [appId |-> a, status |-> <<res.status>>,
                    message |-> IF bodyStr # "" THEN bodyStr ELSE "Import failed"])
              /\ mst' = [mst EXCEPT ![a] = done("error")]
              /\ UNCHANGED skipped
  /\ UNCHANGED <<auxVars, DO_NOT_IMPORT, rq, opc, loc, gi, imported, skipBreakdown,
                 samples, resp, waits>>

\* Promise.all of the group resolves; the loop goes on at once.
BatchGroupSettled ==
  /\ rq.runner = "batch" /\ opc = "running"
  /\ GroupDone(CurrentGroup)
  /\ waits' = Append(waits, 0)
  /\ BatchAdvance(loc, gi, mst)
  /\ UNCHANGED <<auxVars, DO_NOT_IMPORT, rq, loc, imported, skipped, errors,
                 skipBreakdown, samples>>

NextBatch ==
  \/ BatchReceive
  \/ \E a \in DOMAIN mst, o \in ImportOutcomes : BatchFetchSettles(a, o)
  \/ \E a \in DOMAIN mst : BatchRetryElapsed(a)
  \/ \E a \in DOMAIN mst : BatchBodyRead(a)
  \/ BatchGroupSettled

InitBatch ==
  InitRunner /\ rq \in BatchRequests /\ DO_NOT_IMPORT \in DenylistChoices

SpecBatch == InitBatch /\ [][NextBatch]_vars

\* -------------------------------------- GET /api/steam/reimport (route)

ReimportDefaultConcurrency == 6
ReimportConcurrencyCap == 20
ReimportConcurrency(q) ==
  MathMax(Num(1), MathMin(NumberOr(q, ReimportDefaultConcurrency),
                          Num(ReimportConcurrencyCap)))

\* shouldSkip(status, bodyStr) of the reimport route.
shouldSkipReimport(status, bodyStr) ==
  \/ status = 409 \/ status = 404 \/ status = 422
  \/ \E ph \in NoDataPhrases : LowerIncludes(bodyStr, ph)

ReimportRq(c) == [runner |-> "reimport", concurrency |-> c, verbose |-> FALSE]
ReimportRequests == {ReimportRq(c) : c \in {QAbsent, QText, QInt(0), QInt(2)}}

ReimportPayload(l, imp, skp, errs) ==
  [NoPayload EXCEPT !.total = Len(l.all), !.requested = Len(l.all),
     !.processed = Len(l.all), !.importedCount = Len(imp),
     !.skippedCount = Len(skp), !.errorCount = Len(errs),
     !.imported = imp, !.skipped = skp, !.errors = errs]

\* The request arrives and the stale games are queried.
ReimportReceive ==
  /\ rq.runner = "reimport" /\ opc = "init"
  /\ opc' = "awaitStale"
  /\ UNCHANGED <<auxVars, DO_NOT_IMPORT, rq, loc, gi, mst, imported, skipped, errors,
                 skipBreakdown, samples, resp, waits>>

\* prisma.game.findMany rejects: the outer catch answers 500.
ReimportQueryFails ==
  /\ rq.runner = "reimport" /\ opc = "awaitStale"
  /\ resp' = ErrorResp(500, "Reimport failed")
  /\ opc' = "done"
  /\ UNCHANGED <<auxVars, DO_NOT_IMPORT, rq, loc, gi, mst, imported, skipped, errors,
                 skipBreakdown, samples, waits>>

ReimportAdvance(l, g, m, imp, skp, errs) ==
  IF g < Len(l.groups)
  THEN /\ gi' = g + 1
       /\ mst' = Launch(m, l.groups[g + 1])
       /\ opc' = "running"
       /\ UNCHANGED resp
  ELSE /\ gi' = g
       /\ mst' = m
       /\ opc' = "done"
       /\ resp' = [status |-> 200, error |-> "",
                   body |-> ReimportPayload(l, imp, skp, errs)]

\* The stale ids arrive: an empty list is answered at once, else the first
\* group is started.
ReimportQueryArrives ==
  /\ rq.runner = "reimport" /\ opc = "awaitStale"
  /\ \E ids \in OwnedLists :
       LET concurrency == ReimportConcurrency(rq.concurrency)
           l == [NoLoc EXCEPT !.concurrency = concurrency, !.all = ids,
                   !.owned = ids, !.page = ids, !.processed = Len(ids),
                   !.groups = chunk(ids, concurrency)]
       IN  /\ loc' = l
           /\ ReimportAdvance(l, 0, [a \in Range(ids) |-> NotStarted],
                              <<>>, <<>>, <<>>)
  /\ UNCHANGED <<auxVars, DO_NOT_IMPORT, rq, imported, skipped, errors, skipBreakdown,
                 samples, waits>>

\* importOne(origin, id): the fetch of member a settles with outcome o; the
\* member keeps its result, nothing is pushed yet.
ReimportFetchSettles(a, o) ==
  /\ rq.runner = "reimport" /\ opc = "running"
  /\ mst[a].pc = "fetch"
  /\ LET d == withRetryFetch(mst[a].i, o)
     IN  \/ /\ d.act = "sleep"
            /\ mst' = [mst EXCEPT ![a].pc = "retrySleep"]
         \/ /\ d.act = "return" /\ IsOk(o)
            /\ mst' = [mst EXCEPT ![a].pc = "settled", ![a].out = "imported"]
         \/ /\ d.act = "return" /\ ~IsOk(o)
            /\ mst' = [mst EXCEPT ![a].pc = "readBody", ![a].res = o]
         \/ /\ d.act = "throw"
            /\ mst' = [mst EXCEPT ![a].pc = "settled", ![a].out = "error",
                                  ![a].res = o]
  /\ UNCHANGED <<auxVars, DO_NOT_IMPORT, rq, opc, loc, gi, imported, skipped, errors,
                 skipBreakdown, samples, resp, waits>>

ReimportRetryElapsed(a) ==
  /\ rq.runner = "reimport" /\ opc = "running"
  /\ mst[a].pc = "retrySleep"
  /\ mst' = [mst EXCEPT ![a].pc = "fetch", ![a].i = mst[a].i + 1]
  /\ UNCHANGED <<auxVars, DO_NOT_IMPORT, rq, opc, loc, gi, imported, skipped, errors,
                 skipBreakdown, samples, resp, waits>>

\* readBody is done: importOne returns "skipped" or "error".
ReimportBodyRead(a) ==
  /\ rq.runner = "reimport" /\ opc = "running"
  /\ mst[a].pc = "readBody"
  /\ mst' = [mst EXCEPT ![a].pc = "settled",
               ![a].out = IF shouldSkipReimport(mst[a].res.status, BodyStr(mst[a].res))
                          THEN "skipped" ELSE "error"]
  /\ UNCHANGED <<auxVars, DO_NOT_IMPORT, rq, opc, loc, gi, imported, skipped, errors,
                 skipBreakdown, samples, resp, waits>>

\* for (const r of results): the results of a group, in group order.
ResultIds(group, m, out) == FilterSeq(group, {a \in Range(group) : m[a].out = out})
RECURSIVE ResultErrors(_, _)
ResultErrors(group, m) ==
  IF group = <<>> THEN <<>>
  ELSE LET a == Head(group)
           msg == IF m[a].res.kind = "throw" THEN m[a].res.text
                  ELSE IF BodyStr(m[a].res) # "" THEN BodyStr(m[a].res)
                  ELSE "Import failed"
       IN  (IF m[a].out = "error"
            THEN <<[appId |-> a, status |-> <<>>, message |-> msg]>> ELSE <<>>)
             \o ResultErrors(Tail(group), m)

\* Promise.all of the group resolves: the results are pushed to the
\* accumulators and the loop goes on at once.
ReimportGroupSettled ==
  /\ rq.runner = "reimport" /\ opc = "running"
  /\ GroupDone(CurrentGroup)
  /\ imported' = imported \o ResultIds(CurrentGroup, mst, "imported")
  /\ skipped' = skipped \o ResultIds(CurrentGroup, mst, "skipped")
  /\ errors' = errors \o ResultErrors(CurrentGroup, mst)
  /\ waits' = Append(waits, 0)
  /\ ReimportAdvance(loc, gi, mst, imported', skipped', errors')
  /\ UNCHANGED <<auxVars, DO_NOT_IMPORT, rq, loc, skipBreakdown, samples>>

NextReimport ==
  \/ ReimportReceive
  \/ ReimportQueryFails
  \/ ReimportQueryArrives
  \/ \E a \in DOMAIN mst, o \in ImportOutcomes : ReimportFetchSettles(a, o)
  \/ \E a \in DOMAIN mst : ReimportRetryElapsed(a)
  \/ \E a \in DOMAIN mst : ReimportBodyRead(a)
  \/ ReimportGroupSettled

\* The reimport route does not read the denylist: it runs with the shipped one.
InitReimport ==
  InitRunner /\ rq \in ReimportRequests /\ DO_NOT_IMPORT = {}

SpecReimport == InitReimport /\ [][NextReimport]_vars

\* ------------------------------------------------ the three runners

InitRunners == InitOwned \/ InitBatch \/ InitReimport
NextRunners == NextOwned \/ NextBatch \/ NextReimport
SpecRunners == InitRunners /\ [][NextRunners]_vars

\* ------------------------------------------ withRetryFetch, one call

\* No runner is active while another part of the program is looked at.
NoRq == [runner |-> "none"]
RunnersIdle == InitRunnerVars /\ rq = NoRq /\ DO_NOT_IMPORT = {}

\* What one fetch() attempt may produce.
FetchStatuses == {200, 204, 302, 400, 404, 422, 429, 500, 502, 503}
FetchOutcomes == {Response(st, "", "", "", "") : st \in FetchStatuses} \cup {Thrown}

\* withRetryFetch(url, init) is called: i = 0, the first fetch is issued.
RetryCall ==
  /\ rpc = "idle"
  /\ rpc' = "fetch" /\ ri' = 0
  /\ UNCHANGED <<attempts, sleeps, rres, runnerVars, clientVars, importVars, raceVars, otherVars>>

\* The fetch of attempt i settles with outcome o.
RetryFetchSettles(o) ==
  /\ rpc = "fetch"
  /\ attempts' = Append(attempts, o)
  /\ LET d == withRetryFetch(ri, o)
     IN  \/ /\ d.act = "sleep"
            /\ rpc' = "sleep"
            /\ UNCHANGED rres
         \/ /\ d.act = "return"
            /\ rpc' = "returned" /\ rres' = o
         \/ /\ d.act = "throw"
            /\ rpc' = "thrown" /\ rres' = o
  /\ UNCHANGED <<ri, sleeps, runnerVars, clientVars, importVars, raceVars, otherVars>>

\* await sleep(baseDelayMs * 2^i) is over; the loop goes round (i++).
RetrySleepElapsed ==
  /\ rpc = "sleep"
  /\ sleeps' = Append(sleeps, withRetryFetch(ri, attempts[Len(attempts)]).ms)
  /\ ri' = ri + 1
  /\ rpc' = "fetch"
  /\ UNCHANGED <<attempts, rres, runnerVars, clientVars, importVars, raceVars, otherVars>>

NextRetry ==
  \/ RetryCall
  \/ \E o \in FetchOutcomes : RetryFetchSettles(o)
  \/ RetrySleepElapsed

InitRetry == RunnersIdle /\ RetryIdle /\ ClientIdle /\ ImportIdle /\ RaceIdle /\ OtherIdle
SpecRetry == InitRetry /\ [][NextRetry]_vars

\* --------------------------------- ImportRunner.run (the client's loop)
\* One run() at a time: the form is disabled while running is set, and here
\* only run() itself clears it.

MaxCalls == MaxOwned + 2
ClientLimits == {1, 2, 100}
ClientConcurrency == 3
\* JS undefined where a number is expected (a field the error JSON lacks).
Undefined == [nan |-> TRUE, v |-> -1]

\* The GET /api/steam/owned request run() builds for the current offset.
ClientRq ==
  OwnedRq(TRUE, TRUE, QInt(climit),
          IF coffset.nan THEN QText ELSE QInt(coffset.v),
          QInt(ClientConcurrency), QAbsent, QAbsent, FALSE, ClientBackoffMs)

\* The form is submitted: run() resets the stats and issues the first fetch.
ClientRun ==
  /\ ~running
  /\ running' = TRUE
  /\ stats' = ZeroStats
  /\ coffset' = Num(0) /\ firstPass' = TRUE
  /\ calls' = <<>>
  /\ lastLine' = "fetching"
  /\ cpc' = "fetching"
  /\ UNCHANGED <<steamOwned, climit, runnerVars, retryVars, importVars, raceVars, otherVars>>

\* The rest of one loop pass once the JSON is there: json is what the route
\* answered, with its counts nimp, nskp, nerr.
ClientAfterJson(status, l, nimp, nskp, nerr, more, nxt) ==
  /\ calls' = Append(calls, [offset |-> coffset, status |-> status, page |-> l.page,
                             nextOffset |-> nxt, hasMore |-> more])
  /\ stats' = [total |-> IF firstPass
                          THEN (IF status = 200 THEN Num(Len(l.owned)) ELSE Undefined)
                          ELSE stats.total,
               imported |-> JsAdd(stats.imported, nimp),
               skipped |-> JsAdd(stats.skipped, nskp),
               errors |-> JsAdd(stats.errors, nerr)]
  /\ firstPass' = FALSE
  /\ IF ~more
     THEN /\ lastLine' = "done"
          /\ cpc' = "ended" /\ running' = FALSE
          /\ UNCHANGED coffset
     ELSE /\ coffset' = nxt
          /\ lastLine' = "fetching"
          /\ UNCHANGED <<cpc, running>>

\* The route answers 200 with the page at the current offset; every id of
\* the page is in one of the three lists.
ClientPageOk ==
  /\ cpc = "fetching" /\ Len(calls) < MaxCalls
  /\ \E l \in {OwnedLocals(ClientRq, steamOwned, DO_NOT_IMPORT)} :
       \E nimp \in 0..l.processed : \E nskp \in 0..(l.processed - nimp) :
         ClientAfterJson(200, l, Num(nimp), Num(nskp),
                         Num(l.processed - nimp - nskp), l.hasMore, l.nextOffset)
  /\ UNCHANGED <<steamOwned, climit, runnerVars, retryVars, importVars, raceVars, otherVars>>

\* The route answers with its error object (status 500): the JSON has no
\* counts and no hasMore, run() adds undefined and breaks.
ClientPageError ==
  /\ cpc = "fetching" /\ Len(calls) < MaxCalls
  /\ ClientAfterJson(500, NoLoc, Undefined, Undefined, Undefined, FALSE, Undefined)
  /\ UNCHANGED <<steamOwned, climit, runnerVars, retryVars, importVars, raceVars, otherVars>>

\* fetch (or res.json) rejects: catch, finally.
ClientFetchThrows ==
  /\ cpc = "fetching"
  /\ lastLine' = "error"
  /\ cpc' = "ended" /\ running' = FALSE
  /\ UNCHANGED <<steamOwned, climit, coffset, firstPass, stats, calls,
                 runnerVars, retryVars, importVars, raceVars, otherVars>>

NextClient ==
  \/ ClientRun
  \/ ClientPageOk
  \/ ClientPageError
  \/ ClientFetchThrows

InitClient ==
  /\ InitRunnerVars /\ rq = NoRq /\ DO_NOT_IMPORT \in DenylistChoices
  /\ RetryIdle /\ ImportIdle /\ RaceIdle /\ OtherIdle
  /\ steamOwned \in OwnedLists /\ climit \in ClientLimits
  /\ cpc = "idle" /\ running = FALSE
  /\ coffset = Num(0) /\ firstPass = TRUE
  /\ stats = ZeroStats /\ lastLine = "" /\ calls = <<>>
\* Every fetch settles, with a response or with a rejection.
ClientSettles == ClientPageOk \/ ClientPageError \/ ClientFetchThrows
SpecClient == InitClient /\ [][NextClient]_vars /\ WF_vars(ClientSettles)

\* ------------------------------------------------- lib/normalizers

\* Strings are sequences of one-character strings.
Uppers == <<"A", "B", "C", "D", "E", "F", "G", "H", "I", "J", "K", "L", "M",
            "N", "O", "P", "Q", "R", "S", "T", "U", "V", "W", "X", "Y", "Z">>
Lowers == <<"a", "b", "c", "d", "e", "f", "g", "h", "i", "j", "k", "l", "m",
            "n", "o", "p", "q", "r", "s", "t", "u", "v", "w", "x", "y", "z">>
LowerChar(c) ==
  IF \E k \in 1..Len(Uppers) : Uppers[k] = c
  THEN Lowers[CHOOSE k \in 1..Len(Uppers) : Uppers[k] = c]
  ELSE c
ToLower(str) == [k \in 1..Len(str) |-> LowerChar(str[k])]
IsSpace(c) == c = " "
DigitChars == <<"0", "1", "2", "3", "4", "5", "6", "7", "8", "9">>
IsSlugChar(c) == c \in Range(Lowers) \cup Range(DigitChars)

RECURSIVE TrimStart(_)
TrimStart(str) ==
  IF str # <<>> /\ IsSpace(Head(str)) THEN TrimStart(Tail(str)) ELSE str
RECURSIVE TrimEnd(_)
TrimEnd(str) ==
  IF str # <<>> /\ IsSpace(str[Len(str)])
  THEN TrimEnd(SubSeq(str, 1, Len(str) - 1)) ELSE str
Trim(str) == TrimEnd(TrimStart(str))

\* replace(/[^a-z0-9]+/g, "-"): every run of other characters becomes one "-".
RECURSIVE DashRuns(_, _)
DashRuns(str, inRun) ==
  IF str = <<>> THEN <<>>
  ELSE IF IsSlugChar(Head(str)) THEN <<Head(str)>> \o DashRuns(Tail(str), FALSE)
  ELSE IF inRun THEN DashRuns(Tail(str), TRUE)
  ELSE <<"-">> \o DashRuns(Tail(str), TRUE)

\* replace(/(^-|-$)+/g, ""): a "-" at the start and a "-" at the end go.
StripDashes(str) ==
  LET a == IF str # <<>> /\ Head(str) = "-" THEN Tail(str) ELSE str
  IN  IF a # <<>> /\ a[Len(a)] = "-" THEN SubSeq(a, 1, Len(a) - 1) ELSE a

slugify(input) ==
  StripDashes(DashRuns(SelectSeq(Trim(ToLower(input)),
                                 LAMBDA c : c \notin {"'", "\""}), FALSE))

RECURSIVE Digits(_)
Digits(n) ==
  IF n < 10 THEN <<DigitChars[n + 1]>>
  ELSE Digits(n \div 10) \o <<DigitChars[(n % 10) + 1]>>

generateGameSlug(name, steamAppId) == slugify(name) \o <<"-">> \o Digits(steamAppId)

\* A field the payload lacks.
Null == <<"null">>
Coalesce(a, b) == IF a # Null THEN a ELSE b

\* normalizeGame: the title and the slug (the other columns are copied).
normalizeGame(appId, d) ==
  LET title == Coalesce(d.name, <<"a", "p", "p", "-">> \o Digits(appId))
  IN  [steamAppId |-> appId, title |-> title,
       slug |-> generateGameSlug(title, appId)]

\* normalizeScreenshots: rows with their index, those without a url dropped.
RECURSIVE ShotsFrom(_, _)
ShotsFrom(shots, idx) ==
  IF idx > Len(shots) THEN <<>>
  ELSE LET url == Coalesce(shots[idx].path_full,
                           Coalesce(shots[idx].path_thumbnail, <<>>))
           row == [imageUrl |-> url,
                   thumbnailUrl |-> shots[idx].path_thumbnail,
                   sortIndex |-> idx - 1]
       IN  (IF url # <<>> THEN <<row>> ELSE <<>>) \o ShotsFrom(shots, idx + 1)
normalizeScreenshots(d) == ShotsFrom(d.screenshots, 1)

\* Deduplicate while preserving order.
RECURSIVE Dedupe(_, _)
Dedupe(names, seen) ==
  IF names = <<>> THEN <<>>
  ELSE IF Head(names) \in seen THEN Dedupe(Tail(names), seen)
  ELSE <<Head(names)>> \o Dedupe(Tail(names), seen \cup {Head(names)})

\* normalizeTags: the descriptions trimmed, the empty ones dropped, deduplicated.
normalizeTags(d) ==
  LET trimmed == [k \in 1..Len(d.genres) |-> Trim(d.genres[k])]
  IN  Dedupe(SelectSeq(trimmed, LAMBDA n : n # <<>>), {})

normalizePlatforms(d) ==
  (IF d.windows THEN <<<<"W", "i", "n", "d", "o", "w", "s">>>> ELSE <<>>)
    \o (IF d.mac THEN <<<<"M", "a", "c">>>> ELSE <<>>)
    \o (IF d.linux THEN <<<<"L", "i", "n", "u", "x">>>> ELSE <<>>)

\* replace(/\s+/g, " "): every run of whitespace becomes one space.
RECURSIVE SpaceRuns(_, _)
SpaceRuns(str, inRun) ==
  IF str = <<>> THEN <<>>
  ELSE IF ~IsSpace(Head(str)) THEN <<Head(str)>> \o SpaceRuns(Tail(str), FALSE)
  ELSE IF inRun THEN SpaceRuns(Tail(str), TRUE)
  ELSE <<" ">> \o SpaceRuns(Tail(str), TRUE)
canonical(str) == SpaceRuns(ToLower(Trim(str)), FALSE)
uniqueCanonical(names) ==
  Dedupe([k \in 1..Len(names) |-> canonical(names[k])], {})

\* ---------------------- lib/normalizers in the version of part_011

SlugMaxLen == 120

\* (x || ""): a missing field reads as the empty string.
OrEmpty(a) == IF a = Null THEN <<>> ELSE a

\* replace(/^-+|-+$/g, "") after the runs were collapsed, then slice(0, 120);
\* no trim, and only the apostrophe is removed.
slugify_011(title) ==
  LET t == StripDashes(DashRuns(SelectSeq(ToLower(title),
                                          LAMBDA c : c # "'"), FALSE))
  IN  SubSeq(t, 1, IF Len(t) < SlugMaxLen THEN Len(t) ELSE SlugMaxLen)

\* normalizeGame: the slug is the slugified title, without the id.
normalizeGame_011(appId, d) ==
  LET t == Trim(OrEmpty(d.name))
      title == IF t # <<>> THEN t ELSE <<"A", "p", "p", " ">> \o Digits(appId)
  IN  [steamAppId |-> appId, title |-> title, slug |-> slugify_011(title)]

\* normalizeScreenshots: a row needs path_full; the thumbnail is no fallback.
RECURSIVE ShotsFrom_011(_, _)
ShotsFrom_011(shots, idx) ==
  IF idx > Len(shots) THEN <<>>
  ELSE LET full == Trim(OrEmpty(shots[idx].path_full))
           thumb == Trim(OrEmpty(shots[idx].path_thumbnail))
           row == [imageUrl |-> full,
                   thumbnailUrl |-> IF thumb # <<>> THEN thumb ELSE Null,
                   sortIndex |-> idx - 1]
       IN  (IF full # <<>> THEN <<row>> ELSE <<>>) \o ShotsFrom_011(shots, idx + 1)
normalizeScreenshots_011(d) == ShotsFrom_011(d.screenshots, 1)

\* uniqueCanonical: trimmed, empty ones dropped, deduplicated on the
\* lower-cased name, the first-seen casing kept.
RECURSIVE DedupeFolded(_, _)
DedupeFolded(items, seen) ==
  IF items = <<>> THEN <<>>
  ELSE LET t == Trim(Head(items))
       IN  IF t = <<>> \/ ToLower(t) \in seen THEN DedupeFolded(Tail(items), seen)
           ELSE <<t>> \o DedupeFolded(Tail(items), seen \cup {ToLower(t)})
uniqueCanonical_011(items) == DedupeFolded(items, {})

extractTagNamesFromSteam_011(d) ==
  uniqueCanonical_011(SelectSeq(d.genres, LAMBDA n : n # <<>>))
extractPlatformNamesFromSteam_011(d) ==
  LET out == normalizePlatforms(d)
  IN  uniqueCanonical_011(IF out # <<>> THEN Append(out, <<"P", "C">>) ELSE out)

\* -------------------------------- /api/steam/import: GET and importOne

MaxImports == 3

\* Payloads Steam may hold for an app (the data of its appdetails entry).
NoShot == [path_full |-> Null, path_thumbnail |-> Null]
Shot(full, thumb) == [path_full |-> full, path_thumbnail |-> thumb]
DetailsA == [name |-> <<"a">>,
             screenshots |-> <<Shot(<<"f">>, <<"t">>), Shot(<<"g">>, Null)>>,
             genres |-> <<<<"A">>>>, windows |-> TRUE, mac |-> FALSE, linux |-> FALSE]
DetailsB == [name |-> <<" ", "B", "'", "!", " ", "a">>, screenshots |-> <<>>,
             genres |-> <<<<"a", " ">>, <<"A">>>>,
             windows |-> FALSE, mac |-> FALSE, linux |-> FALSE]
DetailsC == [name |-> Null, screenshots |-> <<NoShot, Shot(<<"h">>, <<"t">>)>>,
             genres |-> <<>>, windows |-> FALSE, mac |-> TRUE, linux |-> TRUE]
DetailsChoices == {DetailsA, DetailsB, DetailsC}

\* What fetchAppDetails hands to importOne: the envelope's entry for the id
\* with success and data (data is <<d>>; <<>> stands for none), with
\* success = false, with success and no data,
\* an entry without a success flag, or a thrown network error.
Entry(success, data) == [kind |-> "entry", success |-> success, data |-> data]
BareEntry == [kind |-> "bare", success |-> FALSE, data |-> <<>>]
DetailsThrown == [kind |-> "throw", success |-> FALSE, data |-> <<>>]
DetailsOutcomes ==
  {Entry(TRUE, <<d>>) : d \in DetailsChoices}
    \cup {Entry(FALSE, <<>>), Entry(TRUE, <<>>), BareEntry, DetailsThrown}

\* unwrapDetailsResponse, then the test !unwrapped || !success || !data.
Usable(raw) == raw.kind = "entry" /\ raw.success /\ raw.data # <<>>

\* The first GET of import/route.ts hands the envelope itself to the
\* normalizers: keyed by the id, it has none of the fields they read.
EnvelopeAsDetails == [name |-> Null, screenshots |-> <<>>, genres |-> <<>>,
                      windows |-> FALSE, mac |-> FALSE, linux |-> FALSE]

\* The route and the lib/normalizers it is built with. The first GET of
\* import/route.ts needs normalizeTags, which part_011 does not export.
Deployments ==
  {[variant |-> v, lib |-> l] : v \in {"denylist", "debug"},
                                l \in {"normalizers", "part_011"}}
    \cup {[variant |-> "legacy", lib |-> "normalizers"]}

\* The normalizers as the deployed route calls them.
GameDataOf(appId, d) ==
  IF lib = "part_011" THEN normalizeGame_011(appId, d) ELSE normalizeGame(appId, d)
ScreenshotsOf(d) ==
  IF lib = "part_011" THEN normalizeScreenshots_011(d) ELSE normalizeScreenshots(d)
TagNamesOf(d) ==
  IF variant = "legacy" THEN normalizeTags(d)
  ELSE IF lib = "part_011"
  THEN uniqueCanonical_011(extractTagNamesFromSteam_011(d))
  ELSE uniqueCanonical(normalizeTags(d))
PlatformNamesOf(d) ==
  IF variant = "legacy" THEN normalizePlatforms(d)
  ELSE IF lib = "part_011"
  THEN uniqueCanonical_011(extractPlatformNamesFromSteam_011(d))
  ELSE uniqueCanonical(normalizePlatforms(d))

ImportConfigs ==
  {[ids |-> {}, slugs |-> {}],
   [ids |-> {2}, slugs |-> {normalizeGame(1, DetailsB).slug,
                            normalizeGame_011(1, DetailsB).slug}]}
AppIdQueries == {QAbsent, QText, QInt(0), QInt(1), QInt(2)}

\* The request is answered: importOne returned (or GET did).
ImportAnswer(res) == ires' = res /\ ipc' = "done"

\* prisma.$transaction(async (tx) => ...) is entered: tx sees the tables as
\* they are and is at its first statement.
TxBegin(t) == [pc |-> 1, games |-> games, links |-> links, shotRows |-> shotRows,
               terms |-> t]

\* GET: the id is parsed and checked (400); then importOne up to its first
\* await. The importOne of part_004 looks the id up in DO_NOT_IMPORT first; the
\* importOne of import/route.ts goes to Steam at once; the first GET of
\* import/route.ts takes any string of digits and asks Steam for the details
\* and the reviews together.
ImportReceive(q) ==
  /\ ipc \in {"idle", "done"} /\ nimports < MaxImports
  /\ nimports' = nimports + 1
  /\ prev' = IF ipc = "done"
             THEN [appId |-> ireq.appId.v,
                   data |-> IF ires.status = 200 THEN <<idata>> ELSE <<>>,
                   status |-> ires.status, games |-> games,
                   shotRows |-> shotRows, terms |-> terms, links |-> links]
             ELSE prev
  /\ LET appId == NumberOr(q, 0)
         valid == IF variant = "legacy" THEN q.kind = "int" /\ q.v >= 0
                  ELSE JsPositive(appId)
         denied == variant = "denylist" /\ appId.v \in DO_NOT_IMPORT
     IN  /\ ireq' = [appId |-> appId]
         /\ net' = IF ~valid \/ denied THEN <<>>
                   ELSE IF variant = "legacy" THEN <<"appdetails", "appreviews">>
                   ELSE <<"appdetails">>
         /\ IF ~valid THEN ImportAnswer(RespBadId)
            ELSE IF denied THEN ImportAnswer(RespDenyApp)
            ELSE ipc' = "fetchDetails" /\ ires' = <<>>
  /\ writes' = <<>> /\ idata' = <<>> /\ ievent' = ""
  /\ UNCHANGED <<DO_NOT_IMPORT_SLUGS, variant, lib, tx, games, shotRows, terms,
                 links, runnerVars, retryVars, clientVars, raceVars, otherVars>>

\* fetchAppDetails settles (in the first GET of import/route.ts together with
\* the reviews, whose failure is swallowed): a thrown error goes to the catch;
\* importOne answers 422 unless the entry is usable; the first GET normalizes
\* whatever came and opens its transaction.
ImportDetailsArrive(raw) ==
  /\ ipc = "fetchDetails"
  /\ \/ /\ raw.kind = "throw"
        /\ ImportAnswer(RespFailed)
        /\ ievent' = "fetch"
        /\ UNCHANGED <<idata, net, tx>>
     \/ /\ variant # "legacy" /\ raw.kind # "throw" /\ ~Usable(raw)
        /\ ImportAnswer(RespNoData)
        /\ ievent' = "nodata"
        /\ UNCHANGED <<idata, net, tx>>
     \/ /\ variant # "legacy" /\ Usable(raw)
        /\ idata' = raw.data[1]
        /\ net' = Append(net, "appreviews")
        /\ ipc' = "fetchReviews"
        /\ UNCHANGED <<ires, tx, ievent>>
     \/ /\ variant = "legacy" /\ raw.kind # "throw"
        /\ idata' = EnvelopeAsDetails
        /\ ipc' = "transaction"
        /\ tx' = TxBegin(terms)
        /\ UNCHANGED <<ires, net, ievent>>
  /\ UNCHANGED <<DO_NOT_IMPORT_SLUGS, variant, lib, ireq, nimports, writes, games,
                 shotRows, terms, links, prev, runnerVars, retryVars, clientVars,
                 raceVars, otherVars>>

\* tryFetchReviewSummary settles (never throws); normalizeGame; in part_004
\* the slug is looked up in DO_NOT_IMPORT_SLUGS; then the vocabulary is seeded
\* outside the transaction (steps 4 and 5), which the store may refuse; then
\* the transaction is opened.
ImportReviewsArrive(seedOk) ==
  /\ ipc = "fetchReviews"
  /\ LET gameData == GameDataOf(ireq.appId.v, idata)
         tagNames == TagNamesOf(idata)
         platformNames == PlatformNamesOf(idata)
         denied == variant = "denylist" /\ gameData.slug \in DO_NOT_IMPORT_SLUGS
         seeded == [tags |-> terms.tags \cup Range(tagNames),
                    platforms |-> terms.platforms \cup Range(platformNames)]
     IN  \/ /\ denied /\ seedOk
            /\ ImportAnswer(RespDenySlug)
            /\ UNCHANGED <<terms, writes, tx, ievent>>
         \/ /\ ~denied /\ seedOk
            /\ terms' = seeded
            /\ writes' = writes
                 \o (IF tagNames # <<>> THEN <<"tag.createMany">> ELSE <<>>)
                 \o (IF platformNames # <<>> THEN <<"platform.createMany">> ELSE <<>>)
            /\ ipc' = "transaction"
            /\ tx' = TxBegin(seeded)
            /\ UNCHANGED <<ires, ievent>>
         \/ /\ ~denied /\ ~seedOk /\ (tagNames # <<>> \/ platformNames # <<>>)
            /\ ImportAnswer(RespFailed)
            /\ ievent' = "seed"
            /\ UNCHANGED <<terms, writes, tx>>
  /\ UNCHANGED <<DO_NOT_IMPORT_SLUGS, variant, lib, ireq, idata, nimports, net,
                 games, shotRows, links, prev, runnerVars, retryVars, clientVars,
                 raceVars, otherVars>>

\* ------------------------------------ the transaction of one import

PutRow(table, id, row) ==
  [k \in DOMAIN table \cup {id} |-> IF k = id THEN row ELSE table[k]]

\* tx.game.upsert: the row is created with its slug; on update importOne
\* leaves the slug out, the first GET of import/route.ts writes it again.
UpsertGame_SlugOnUpdate(t, id, d) ==
  LET gameData == GameDataOf(id, d)
  IN  [t EXCEPT !.games = PutRow(t.games, id, [title |-> gameData.title,
                                              slug |-> gameData.slug])]
UpsertGame(t, id, d) ==
  LET gameData == GameDataOf(id, d)
      slug == IF id \in DOMAIN t.games /\ variant # "legacy"
              THEN t.games[id].slug ELSE gameData.slug
  IN  [t EXCEPT !.games = PutRow(t.games, id, [title |-> gameData.title,
                                              slug |-> slug])]

\* The unique index on Game.slug refuses the upsert (P2002): the slug it
\* writes is the slug of another row.
SlugTaken(t, id, d) ==
  /\ id \notin DOMAIN t.games \/ variant = "legacy"
  /\ \E k \in DOMAIN t.games : k # id /\ t.games[k].slug = GameDataOf(id, d).slug

\* The join rows: importOne links the terms findMany returned; the first GET
\* of import/route.ts upserts each term inside the transaction and links it.
LinkTerms(t, id, names, kind) ==
  LET known == IF variant = "legacy" THEN t.terms[kind] \cup Range(names)
               ELSE t.terms[kind]
  IN  [t EXCEPT !.terms[kind] = known,
                !.links[kind] = @ \cup {<<id, n>> : n \in Range(names) \cap known}]

\* tx.screenshot.deleteMany and tx.screenshot.createMany for the game.
DeleteShots_Keep(t, id) == t
DeleteShots(t, id) == [t EXCEPT !.shotRows = PutRow(t.shotRows, id, <<>>)]
CreateShots(t, id, d) ==
  LET old == IF id \in DOMAIN t.shotRows THEN t.shotRows[id] ELSE <<>>
  IN  [t EXCEPT !.shotRows = PutRow(t.shotRows, id, old \o ScreenshotsOf(d))]

\* The statements the transaction block issues for payload d, in order:
\* part_004 refreshes the screenshots only if the new list is not empty,
\* import/route.ts always deletes; the first GET of import/route.ts replaces
\* the screenshots before it links the terms.
Statements(t, d) ==
  LET tags == IF variant = "legacy" THEN Range(TagNamesOf(d))
              ELSE Range(TagNamesOf(d)) \cap t.terms.tags
      platforms == IF variant = "legacy" THEN Range(PlatformNamesOf(d))
                   ELSE Range(PlatformNamesOf(d)) \cap t.terms.platforms
      link == (IF tags # {} THEN <<"gameTag.createMany">> ELSE <<>>)
                \o (IF platforms # {} THEN <<"gamePlatform.createMany">> ELSE <<>>)
      shots == (IF variant # "denylist" \/ ScreenshotsOf(d) # <<>>
                THEN <<"screenshot.deleteMany">> ELSE <<>>)
                 \o (IF ScreenshotsOf(d) # <<>>
                     THEN <<"screenshot.createMany">> ELSE <<>>)
  IN  IF variant = "legacy" THEN <<"game.upsert">> \o shots \o link
      ELSE <<"game.upsert">> \o link \o shots

\* The tables as tx sees them after the statement.
Execute(stmt, t, id, d) ==
  IF stmt = "game.upsert" THEN UpsertGame(t, id, d)
  ELSE IF stmt = "gameTag.createMany" THEN LinkTerms(t, id, TagNamesOf(d), "tags")
  ELSE IF stmt = "gamePlatform.createMany"
  THEN LinkTerms(t, id, PlatformNamesOf(d), "platforms")
  ELSE IF stmt = "screenshot.deleteMany" THEN DeleteShots(t, id)
  ELSE CreateShots(t, id, d)

\* What a reader outside the open transaction sees of the tables: the
\* committed store, not what tx has written so far.
OutsideTx_Autocommit(store, work) ==
  [games |-> work.games, links |-> work.links, shotRows |-> work.shotRows,
   terms |-> work.terms]
OutsideTx(store, work) == store

Store == [games |-> games, links |-> links, shotRows |-> shotRows, terms |-> terms]
SetStore(s) ==
  /\ games' = s.games /\ links' = s.links
  /\ shotRows' = s.shotRows /\ terms' = s.terms

\* The next statement of the block succeeds.
ImportTxStatement ==
  /\ ipc = "transaction"
  /\ tx.pc <= Len(Statements(tx, idata))
  /\ LET id == ireq.appId.v
         stmt == Statements(tx, idata)[tx.pc]
         work == Execute(stmt, tx, id, idata)
     IN  /\ stmt = "game.upsert" => ~SlugTaken(tx, id, idata)
         /\ tx' = [work EXCEPT !.pc = tx.pc + 1]
         /\ writes' = Append(writes, stmt)
         /\ SetStore(OutsideTx(Store, work))
  /\ UNCHANGED <<DO_NOT_IMPORT_SLUGS, variant, lib, ireq, ipc, idata, nimports,
                 net, ires, prev, ievent, runnerVars, retryVars, clientVars, raceVars, otherVars>>

\* The block is through: the transaction commits and the route answers 200.
ImportTxCommit ==
  /\ ipc = "transaction"
  /\ tx.pc = Len(Statements(tx, idata)) + 1
  /\ SetStore([games |-> tx.games, links |-> tx.links,
               shotRows |-> tx.shotRows, terms |-> tx.terms])
  /\ tx' = NoTx
  /\ ievent' = "commit"
  /\ ImportAnswer(RespOk)
  /\ UNCHANGED <<DO_NOT_IMPORT_SLUGS, variant, lib, ireq, idata, nimports, net,
                 writes, prev, runnerVars, retryVars, clientVars, raceVars, otherVars>>

\* importOne's catch: P2002 is answered 409, anything else 500.
importOneCatch(code) == IF code = "P2002" THEN RespDuplicate ELSE RespFailed

\* A statement (or the commit) fails: the transaction is rolled back and the
\* catch answers; the first GET of import/route.ts answers 500 for all.
ImportTxFails(err) ==
  /\ ipc = "transaction"
  /\ err = "P2002" =>
       /\ tx.pc = 1
       /\ SlugTaken(tx, ireq.appId.v, idata)
  /\ tx' = NoTx
  /\ SetStore(OutsideTx(Store, Store))
  /\ ievent' = IF err = "P2002" THEN "P2002" ELSE "tx"
  /\ ImportAnswer(IF variant = "legacy" THEN RespFailed ELSE importOneCatch(err))
  /\ UNCHANGED <<DO_NOT_IMPORT_SLUGS, variant, lib, ireq, idata, nimports, net,
                 writes, prev, runnerVars, retryVars, clientVars, raceVars, otherVars>>

NextImport ==
  \/ \E q \in AppIdQueries : ImportReceive(q)
  \/ \E raw \in DetailsOutcomes : ImportDetailsArrive(raw)
  \/ \E seedOk \in BOOLEAN : ImportReviewsArrive(seedOk)
  \/ ImportTxStatement
  \/ ImportTxCommit
  \/ \E err \in {"P2002", "error"} : ImportTxFails(err)

InitImport ==
  /\ InitRunnerVars /\ rq = NoRq /\ RetryIdle /\ ClientIdle /\ RaceIdle /\ OtherIdle
  /\ \E cfg \in ImportConfigs :
       DO_NOT_IMPORT = cfg.ids /\ DO_NOT_IMPORT_SLUGS = cfg.slugs
  /\ \E dep \in Deployments : variant = dep.variant /\ lib = dep.lib
  /\ ireq = <<>> /\ ipc = "idle" /\ idata = <<>> /\ nimports = 0
  /\ net = <<>> /\ writes = <<>> /\ tx = NoTx /\ prev = NoPrev /\ ievent = ""
  /\ games = <<>> /\ shotRows = <<>>
  /\ terms = NoTerms
  /\ links = NoTerms
  /\ ires = <<>>
SpecImport == InitImport /\ [][NextImport]_vars

\* ------------------------ two imports of one id at the same time

\* The id both requests carry, and the two requests.
RaceId == 1
MaxRacers == 2
Racers == 1..MaxRacers

\* The unique index on Game.steamAppId: a committed row has the key.
UniqueViolation_Off(rows, id) == FALSE
UniqueViolation(rows, id) == \E k \in 1..Len(rows) : rows[k].steamAppId = id

\* An import whose INSERT is written and not yet committed.
InsertPending(p) == rp[p].pc = "commit" /\ ~rp[p].found

\* tx.game.upsert looks the row up by steamAppId.
RaceFind(p) ==
  /\ p \in DOMAIN rp /\ rp[p].pc = "find"
  /\ rp' = [rp EXCEPT ![p].found = UniqueViolation(rrows, RaceId),
                      ![p].pc = "write"]
  /\ UNCHANGED <<rrows, runnerVars, retryVars, clientVars, importVars, otherVars>>

\* tx.game.upsert writes: an UPDATE if the row was found; otherwise an INSERT,
\* which waits while the other import's INSERT of the key is uncommitted and
\* fails with P2002 once a row with the key is committed; the failure ends in
\* importOne's catch.
RaceWrite(p) ==
  /\ p \in DOMAIN rp /\ rp[p].pc = "write"
  /\ rp[p].found \/ \A q \in Racers \ {p} : ~InsertPending(q)
  /\ rp' = IF ~rp[p].found /\ UniqueViolation(rrows, RaceId)
           THEN [rp EXCEPT ![p].pc = "done", ![p].res = importOneCatch("P2002")]
           ELSE [rp EXCEPT ![p].pc = "commit"]
  /\ UNCHANGED <<rrows, runnerVars, retryVars, clientVars, importVars, otherVars>>

\* The transaction commits and importOne answers 200.
RaceCommit(p) ==
  /\ p \in DOMAIN rp /\ rp[p].pc = "commit"
  /\ LET gameData == GameDataOf(RaceId, rp[p].data)
     IN  rrows' = IF rp[p].found
                  THEN [k \in 1..Len(rrows) |->
                          IF rrows[k].steamAppId = RaceId
                          THEN [rrows[k] EXCEPT !.title = gameData.title]
                          ELSE rrows[k]]
                  ELSE Append(rrows, gameData)
  /\ rp' = [rp EXCEPT ![p].pc = "done", ![p].res = RespOk]
  /\ UNCHANGED <<runnerVars, retryVars, clientVars, importVars, otherVars>>

NextRace ==
  \/ \E p \in Racers : RaceFind(p)
  \/ \E p \in Racers : RaceWrite(p)
  \/ \E p \in Racers : RaceCommit(p)

\* The requests have their payload from Steam and enter the transaction; the
\* id is not stored. Either importOne is deployed, with either lib/normalizers.
InitRace ==
  /\ InitRunnerVars /\ rq = NoRq /\ DO_NOT_IMPORT = {} /\ RetryIdle /\ ClientIdle
  /\ OtherIdle
  /\ DO_NOT_IMPORT_SLUGS = {}
  /\ \E dep \in Deployments :
       dep.variant # "legacy" /\ variant = dep.variant /\ lib = dep.lib
  /\ ireq = <<>> /\ ipc = "idle" /\ idata = <<>> /\ nimports = 0
  /\ net = <<>> /\ writes = <<>> /\ tx = NoTx /\ prev = NoPrev /\ ievent = ""
  /\ games = <<>> /\ shotRows = <<>> /\ terms = NoTerms /\ links = NoTerms
  /\ ires = <<>>
  /\ rrows = <<>>
  /\ \E ds \in [Racers -> DetailsChoices] :
       rp = [p \in Racers |-> [pc |-> "find", found |-> FALSE,
                               data |-> ds[p], res |-> NoRes]]
SpecRace == InitRace /\ [][NextRace]_vars

\* ===================================================== claims: the runners

Min2(x, y) == IF x <= y THEN x ELSE y
Max2(x, y) == IF x >= y THEN x ELSE y
CountIn(seq, a) == Cardinality({k \in 1..Len(seq) : seq[k] = a})
ErrorIds(errs) == [k \in 1..Len(errs) |-> errs[k].appId]
\* How often id a occurs in the three result lists of a payload.
Occurrences(b, a) ==
  CountIn(b.imported, a) + CountIn(b.skipped, a) + CountIn(ErrorIds(b.errors), a)
\* The ids the accumulators hold.
Accumulated == Range(imported) \cup Range(skipped) \cup Range(ErrorIds(errors))
OwnedOk == rq.runner = "owned" /\ resp.status = 200
\* Members of group k classified NO_APPDETAILS.
NoDataCount(k) ==
  Cardinality({a \in Range(loc.groups[k]) : mst[a].out = "NO_APPDETAILS"})
\* The delay between groups the request asks for (0 if unset).
GroupDelayMs == IF JsPositive(loc.pageDelayMs) THEN loc.pageDelayMs.v ELSE 0

C3_Claim ==
  OwnedOk => \A a \in Range(loc.page) : Occurrences(resp.body, a) = 1

\* C4 (as stated): after a finished group that is followed by another group,
\* the runner has waited at least the backoff delay when at least half of the
\* group's members were NO_APPDETAILS, and the group delay otherwise.
C4_Claim ==
  rq.runner = "owned" =>
    \A k \in 1..Len(waits) :
      k < gi =>
        IF 2 * NoDataCount(k) >= Len(loc.groups[k])
        THEN waits[k] >= rq.backoff
        ELSE waits[k] = GroupDelayMs

\* C5: a member of a group is started only when every member of every earlier
\* group has settled and the delay after each earlier group has elapsed, in
\* the owned-list, the batch-by-id and the reimport runner.
C5_GroupsSequential ==
  \A g \in 1..Len(loc.groups) :
    (\E a \in Range(loc.groups[g]) : mst[a].pc # "pending") =>
      /\ g <= gi
      /\ \A h \in 1..(g - 1) :
           /\ \A b \in Range(loc.groups[h]) : Settled(b)
           /\ h <= Len(waits)
           /\ rq.runner = "owned" => waits[h] = GroupDelayMs

\* C5 witness: the owned-list runner, a positive group delay, the second
\* group in flight.
C5_Witness ==
  /\ rq.runner = "owned" /\ gi = 2 /\ GroupDelayMs > 0
  /\ \E a \in Range(loc.groups[2]) : mst[a].pc = "fetch"

C7_Claim ==
  rq.runner = "owned" /\ (opc \in {"running", "pageDelay"} \/ resp.status = 200) =>
    /\ ~loc.concurrency.nan
    /\ 1 <= loc.concurrency.v /\ loc.concurrency.v <= ConcurrencyCap
    /\ Cardinality(InFlight) <= loc.concurrency.v

\* C9 (as stated): once the owned list is there the call ends with a 200
\* result that covers every id of the page, whatever the items did; an error
\* object is returned only for a missing credential, a missing account id or a
\* failed owned-list fetch, and then no import was started.
C9_Claim ==
  rq.runner = "owned" /\ opc = "done" =>
    /\ resp.status \in {200, 400, 500}
    /\ resp.status = 200 =>
         /\ \A a \in Range(loc.page) : Occurrences(resp.body, a) >= 1
         /\ resp.body.processed = Len(loc.page)
    /\ resp.status # 200 =>
         /\ ~rq.key \/ ~rq.steamId \/ loc = NoLoc
         /\ mst = <<>>
    /\ loc # NoLoc => resp.status = 200

\* ================================================= claims: withRetryFetch

IsRetryable(o) == o.kind = "throw" \/ o.status >= 500

\* C8: withRetryFetch makes at most 3 attempts; a further attempt is made only
\* after a 5xx response or a network failure; a 2xx, 3xx or 4xx response is
\* returned after the attempt that produced it; the waits are 250 ms and then
\* 500 ms, and no wait follows the last attempt.
C8_RetryPolicy ==
  /\ Len(attempts) <= 3
  /\ \A k \in 2..Len(attempts) : IsRetryable(attempts[k - 1])
  /\ \A k \in 1..Len(attempts) :
       ~IsRetryable(attempts[k]) =>
         k = Len(attempts) /\ rpc = "returned" /\ rres = attempts[k]
  /\ sleeps = SubSeq(<<250, 500>>, 1, Len(sleeps))
  /\ rpc = "fetch" => Len(sleeps) = Len(attempts)
  /\ rpc \in {"sleep", "returned", "thrown"} => Len(sleeps) = Len(attempts) - 1
  /\ rpc = "sleep" => Len(attempts) < 3
  /\ rpc = "returned" => rres = attempts[Len(attempts)] /\ rres.kind = "response"
  /\ rpc = "thrown" => Len(attempts) = 3 /\ rres.kind = "throw"

\* C8 witness: two retried attempts, then a 4xx returned from the third.
C8_Witness ==
  /\ rpc = "returned" /\ Len(attempts) = 3 /\ sleeps = <<250, 500>>
  /\ attempts[1].kind = "throw" /\ attempts[2].status = 503
  /\ rres.status = 404

\* ============================================== claims: the client's loop

RECURSIVE ConcatPages(_, _)
ConcatPages(cs, k) == IF k = 0 THEN <<>> ELSE ConcatPages(cs, k - 1) \o cs[k].page
ClientEligible == EligibleOf(steamOwned, DO_NOT_IMPORT)
ClientPageSize == Max2(1, Min2(climit, 250))
AllCallsOk == \A k \in 1..Len(calls) : calls[k].status = 200
\* run() left its loop because a 200 result said hasMore = false.
ClientCompleted ==
  cpc = "ended" /\ lastLine = "done" /\ calls # <<>> /\ AllCallsOk

\* The cursor as the client sees it, while every call is answered 200.
C2_Cursor ==
  AllCallsOk =>
    LET N == Len(ClientEligible)
        L == ClientPageSize
    IN  /\ \A k \in 1..Len(calls) :
             /\ ~calls[k].offset.nan
             /\ calls[k].offset.v = IF k = 1 THEN 0 ELSE calls[k - 1].nextOffset.v
             /\ calls[k].hasMore = ~(calls[k].offset.v + L >= N)
             /\ k < Len(calls) => calls[k].hasMore
        /\ Len(ConcatPages(calls, Len(calls))) <= N
        /\ ConcatPages(calls, Len(calls)) =
             SubSeq(ClientEligible, 1, Len(ConcatPages(calls, Len(calls))))
        /\ Len(calls) <= Max2(1, N)
        /\ ClientCompleted =>
             /\ ConcatPages(calls, Len(calls)) = ClientEligible
             /\ ~calls[Len(calls)].hasMore
        /\ (cpc = "fetching" /\ calls # <<>>) => calls[Len(calls)].hasMore

\* C2: with a stable owned list of eligible length N and page size L, the
\* client that starts at offset 0 and follows nextOffset until hasMore is false
\* ends after finitely many calls, sees hasMore = false exactly on the first
\* call with offset + L >= N, and its pages, put together, are the eligible
\* list: every eligible id once, no gap.
C2_ClientPaging == []C2_Cursor /\ (cpc = "fetching" ~> cpc = "ended")

\* C2 witness: a completed run of at least two pages whose last page is short.
C2_Witness ==
  /\ ClientCompleted /\ Len(calls) >= 2
  /\ Len(calls[Len(calls)].page) < ClientPageSize
  /\ Len(calls[Len(calls)].page) > 0

\* ======================================================= claims: importOne

\* The id the current request carries is a valid id of the denylist.
DeniedRequest ==
  ipc # "idle" /\ JsPositive(ireq.appId) /\ ireq.appId.v \in DO_NOT_IMPORT

\* C10 (as stated): for an id of the denylist importOne issues no upstream
\* call and no storage write, and answers 422 with code DENYLISTED_APP.
C10_Claim ==
  DeniedRequest =>
    /\ net = <<>>
    /\ writes = <<>>
    /\ ipc = "done" /\ ires.status = 422 /\ ires.code = "DENYLISTED_APP"

\* ============================================ claims: denylist and paging

\* The i-th element (from 1) of the owned list once the denied ids are left
\* out, counted over the unfiltered list; 0 if there is none.
RECURSIVE NthEligible(_, _, _)
NthEligible(all, deny, i) ==
  IF all = <<>> THEN 0
  ELSE IF Head(all) \in deny THEN NthEligible(Tail(all), deny, i)
  ELSE IF i = 1 THEN Head(all)
  ELSE NthEligible(Tail(all), deny, i - 1)

\* C11: once the owned list has arrived, denylistedCount = totalOwned -
\* eligibleOwned is the number of owned ids in the denylist, offset and limit
\* index the filtered list (the k-th id of the page is the (offset + k)-th
\* eligible id), no denied id is in the page slice, none is passed to the
\* single-item importer, and the 200 result reports these counts.
C11_DenylistBeforeSlice ==
  (rq.runner = "owned" /\ loc # NoLoc) =>
    LET denied == {k \in 1..Len(loc.all) : loc.all[k] \in DO_NOT_IMPORT}
    IN  /\ loc.denylistedCount = Cardinality(denied)
        /\ Len(loc.owned) = Len(loc.all) - Cardinality(denied)
        /\ Range(loc.page) \cap DO_NOT_IMPORT = {}
        /\ (~loc.offset.nan /\ ~loc.limit.nan) =>
             \A k \in 1..Len(loc.page) :
               loc.page[k] = NthEligible(loc.all, DO_NOT_IMPORT, loc.offset.v + k)
        /\ \A a \in DOMAIN mst :
             mst[a] # NotStarted => a \notin DO_NOT_IMPORT
        /\ Accumulated \cap DO_NOT_IMPORT = {}
        /\ resp.status = 200 =>
             /\ resp.body.denylistedCount =
                  resp.body.totalOwned - resp.body.eligibleOwned
             /\ resp.body.totalOwned = Len(loc.all)
             /\ resp.body.denylistedCount = Cardinality(denied)

\* C11 witness: a 200 result for a page taken past a denied id: the owned
\* list holds a denied id before the page's last id, and the page was imported.
C11_Witness ==
  /\ OwnedOk
  /\ resp.body.denylistedCount = 1
  /\ resp.body.processed = 2
  /\ Len(resp.body.imported) + Len(resp.body.skipped) + Len(resp.body.errors) = 2
  /\ \E k \in 1..Len(loc.all) : loc.all[k] \in DO_NOT_IMPORT /\ k < loc.page[2]

\* ================================================= claims: the store

\* The current request re-imported, with answer 200, the id the previous
\* request had imported with answer 200.
Reimported ==
  /\ ipc = "done" /\ ires = RespOk
  /\ prev.status = 200 /\ prev.appId = ireq.appId.v

\* C12: no step changes the slug of a stored item or removes the item: the
\* slug an item has is the slug written when it was created, whatever title
\* later imports of the same id bring.
C12_SlugImmutable ==
  [][\A id \in DOMAIN games :
       id \in DOMAIN games' /\ games'[id].slug = games[id].slug]_vars

\* C12 witness: an item was re-imported with another title than the one it
\* was created with, and its slug is not the slug that title would give.
C12_Witness ==
  /\ Reimported
  /\ games[ireq.appId.v].title # prev.games[ireq.appId.v].title
  /\ games[ireq.appId.v].slug # GameDataOf(ireq.appId.v, idata).slug

\* C13: when an id that was just imported with answer 200 is imported again
\* with the same payload and the answer is 200 again, the store after the
\* second import is the store after the first: the same item rows and slugs,
\* the same terms, the same links, the same screenshot rows. The second
\* import is never answered 409: a duplicate-key answer leaves the id without
\* a row.
C13_Idempotent ==
  /\ (Reimported /\ prev.data = <<idata>>) =>
       /\ games = prev.games
       /\ shotRows = prev.shotRows
       /\ terms = prev.terms
       /\ links = prev.links
  /\ (ipc = "done" /\ ires = RespDuplicate) => ireq.appId.v \notin DOMAIN games

\* C13 witness: the same payload, with screenshots and terms, was imported
\* twice in succession for one id, both times with answer 200.
C13_Witness ==
  /\ Reimported /\ prev.data = <<idata>>
  /\ ireq.appId.v \in DOMAIN shotRows
  /\ shotRows[ireq.appId.v] # <<>>
  /\ \E l \in links.tags : l[1] = ireq.appId.v

\* The screenshot rows stored for an item.
ShotRowsOf(id) == IF id \in DOMAIN shotRows THEN shotRows[id] ELSE <<>>

\* C14 (as stated): after every import answered 200 the screenshot rows of
\* the item are exactly the normalized screenshot list of the payload just
\* imported, also when that list is shorter than the stored one or empty.
C14_Claim ==
  (ipc = "done" /\ ires = RespOk) =>
    ShotRowsOf(ireq.appId.v) = ScreenshotsOf(idata)

\* C15 (as stated): term names that differ only in case or in surrounding or
\* repeated whitespace are one stored term, and an item is linked to it by one
\* row, whatever imports brought the names.
C15_Claim ==
  \A kind \in {"tags", "platforms"} :
    /\ \A m, n \in terms[kind] : canonical(m) = canonical(n) => m = n
    /\ \A k, l \in links[kind] :
         (k[1] = l[1] /\ canonical(k[2]) = canonical(l[2])) => k = l

\* The rows the store holds for item id are those of one whole import of
\* payload d: the row has d's title, every term of d is linked, and the
\* screenshot rows are d's list (part_004 keeps the earlier rows when d has
\* none).
WholeImport(id, d) ==
  /\ games[id].title = GameDataOf(id, d).title
  /\ \A n \in Range(TagNamesOf(d)) : <<id, n>> \in links.tags
  /\ \A n \in Range(PlatformNamesOf(d)) : <<id, n>> \in links.platforms
  /\ (variant # "denylist" \/ ScreenshotsOf(d) # <<>>) =>
       ShotRowsOf(id) = ScreenshotsOf(d)

\* C16: in every state, also while a transaction is open and after one has
\* failed at any statement, each stored item carries the rows of one whole
\* import: no item row without the links and screenshots of the import that
\* wrote it, no screenshots deleted without the new ones, and no links or
\* screenshot rows of an item that has no row.
C16_Atomic ==
  /\ \A id \in DOMAIN games :
       \E d \in DetailsChoices \cup {EnvelopeAsDetails} : WholeImport(id, d)
  /\ DOMAIN shotRows \subseteq DOMAIN games
  /\ \A kind \in {"tags", "platforms"} :
       \A l \in links[kind] : l[1] \in DOMAIN games

\* C16 witness: an import failed inside its transaction after the upsert and
\* the screenshot delete had run, for an item stored with screenshots.
C16_Witness ==
  /\ ipc = "done" /\ ires = RespFailed
  /\ Len(writes) > 0 /\ writes[Len(writes)] = "screenshot.deleteMany"
  /\ ShotRowsOf(ireq.appId.v) # <<>>

\* =============================================== claims: concurrent imports

RowsOf(id) == {k \in 1..Len(rrows) : rrows[k].steamAppId = id}
RaceOver == \A p \in DOMAIN rp : rp[p].pc = "done"
\* The import whose INSERT was refused.
LostCreate(p) == rp[p].pc = "done" /\ ~rp[p].found /\ rp[p].res # RespOk

Answered == ipc = "done" /\ variant # "legacy" /\ JsPositive(ireq.appId)

\* The status the events of the current request call for: 422 for a denied
\* id, for details without usable data and for a denied slug; 409 for the
\* unique-constraint error; 500 for every other failure; 200 once the fetch,
\* the normalization and the transaction have all succeeded.
StatusCalledFor ==
  IF ireq.appId.v \in DO_NOT_IMPORT THEN 422
  ELSE IF ievent = "fetch" THEN 500
  ELSE IF ievent = "nodata" THEN 422
  ELSE IF GameDataOf(ireq.appId.v, idata).slug \in DO_NOT_IMPORT_SLUGS THEN 422
  ELSE IF ievent = "P2002" THEN 409
  ELSE IF ievent = "commit" THEN 200
  ELSE 500

\* C18 (as stated): importOne always answers, with 200 exactly when fetch,
\* normalize and upsert all succeeded, 422 when upstream gave no usable data or
\* the id or the slug is denied, 409 on the unique-constraint error and 500 on
\* any other failure.
C18_Claim ==
  Answered =>
    /\ ires.status \in {200, 422, 409, 500}
    /\ ires.status = StatusCalledFor
    /\ ires.status = 200 <=> ievent = "commit"

\* ================================ one item through the runner and the route

\* GET /api/steam/owned with limit=1, so that the page holds one item, plain
\* and with verbose=1 and both delays: the
\* runner's fetch of /api/steam/import is served by importOne, whose answer
\* travels back or is replaced on the way.
ItemRequests ==
  {OwnedRq(TRUE, TRUE, QInt(1), QAbsent, QAbsent, QAbsent, QAbsent, FALSE, 0),
   OwnedRq(TRUE, TRUE, QInt(1), QAbsent, QAbsent, QInt(400), QInt(400), TRUE, 0)}

\* What the runner's fetch may see in place of importOne's answer: a 404 page,
\* a 502 page of a gateway, a 500 announced as JSON whose body does not parse,
\* a 500 with an empty body, or a network error.
RespNotFound == Response(404, "", "", "", "<html>Not Found</html>")
RespBadGateway == Response(502, "", "", "", "<html>Bad Gateway</html>")
RespMalformed == Response(500, "", "", "", "{\"error\": ")
RespEmpty == Response(500, "", "", "", "")
NetworkOutcomes == {RespNotFound, RespBadGateway, RespMalformed, RespEmpty, Thrown}

\* Attempt i of member a is under way and importOne has not been called for it.
ItemCallsImport(a) ==
  /\ rq.runner = "owned" /\ opc = "running"
  /\ mst[a].pc = "fetch" /\ nimports = mst[a].i
  /\ ImportReceive(QInt(a))

\* importOne has answered attempt i of member a.
ItemAnswered(a) ==
  mst[a].pc = "fetch" /\ ipc = "done" /\ nimports = mst[a].i + 1

\* The answer reaches the runner's fetch.
ItemAnswerArrives(a) == ItemAnswered(a) /\ OwnedFetchSettles(a, ires)

\* The answer is replaced on the way, or the connection fails.
ItemAnswerLost(a, o) == ItemAnswered(a) /\ OwnedFetchSettles(a, o)

NextItem ==
  \/ OwnedReceive
  \/ OwnedListFails
  \/ OwnedListArrives
  \/ \E a \in DOMAIN mst : ItemCallsImport(a)
  \/ \E raw \in DetailsOutcomes : ImportDetailsArrive(raw)
  \/ \E seedOk \in BOOLEAN : ImportReviewsArrive(seedOk)
  \/ ImportTxStatement
  \/ ImportTxCommit
  \/ \E err \in {"P2002", "error"} : ImportTxFails(err)
  \/ \E a \in DOMAIN mst : ItemAnswerArrives(a)
  \/ \E a \in DOMAIN mst, o \in NetworkOutcomes : ItemAnswerLost(a, o)
  \/ \E a \in DOMAIN mst : OwnedRetryElapsed(a)
  \/ \E a \in DOMAIN mst : OwnedBodyRead(a)
  \/ \E a \in DOMAIN mst : OwnedItemDelayElapsed(a)
  \/ OwnedGroupSettled
  \/ OwnedPageDelayElapsed

InitItem ==
  /\ InitRunnerVars /\ rq \in ItemRequests /\ RetryIdle /\ ClientIdle /\ RaceIdle /\ OtherIdle
  /\ \E cfg \in ImportConfigs :
       DO_NOT_IMPORT = cfg.ids /\ DO_NOT_IMPORT_SLUGS = cfg.slugs
  /\ \E dep \in Deployments :
       dep.variant # "legacy" /\ variant = dep.variant /\ lib = dep.lib
  /\ ireq = <<>> /\ ipc = "idle" /\ idata = <<>> /\ nimports = 0
  /\ net = <<>> /\ writes = <<>> /\ tx = NoTx /\ prev = NoPrev /\ ievent = ""
  /\ games = <<>> /\ shotRows = <<>> /\ terms = NoTerms /\ links = NoTerms
  /\ ires = <<>>
SpecItem == InitItem /\ [][NextItem]_vars

\* ======================================== claims: classification of an item

\* handleOnce has put member a into one of the accumulators.
Resolved(a) == mst[a].pc \in {"itemDelay", "settled"}

\* How often id a occurs in the three accumulators.
Recorded(a) ==
  CountIn(imported, a) + CountIn(skipped, a) + CountIn(ErrorIds(errors), a)

\* The runner turns from reading the body of member a to its classification.
Classifies(a) ==
  a \in DOMAIN mst /\ mst[a].pc = "readBody" /\ mst'[a].pc # "readBody"

ReasonCalledFor(res) ==
  IF res.status = 409 THEN "ALREADY_IMPORTED"
  ELSE IF res.code \in {"DENYLISTED_APP", "DENYLISTED_SLUG"} THEN "DENYLISTED"
  ELSE IF \/ res.code = "NO_APPDETAILS"
          \/ \E ph \in NoDataPhrases : LowerIncludes(BodyStr(res), ph)
          \/ res.status \in {404, 422} /\ res.code = ""
       THEN "NO_APPDETAILS"
  ELSE "error"

\* C20 (as stated): the runner classifies a non-2xx answer as AlreadyImported
\* for a 409, NoDetailAvailable for a no-data answer, Denylisted for a
\* rejection with code DENYLISTED_APP or DENYLISTED_SLUG, and as an error
\* otherwise; a denylist rejection is never counted as NoDetailAvailable and
\* never as an error.
C20_Claim ==
  [][\A a \in DOMAIN mst :
       Classifies(a) =>
         /\ mst'[a].out = ReasonCalledFor(mst[a].res)
         /\ mst[a].res.code \in {"DENYLISTED_APP", "DENYLISTED_SLUG"} =>
              mst'[a].out \notin {"NO_APPDETAILS", "error"}]_vars

\* ================================== a verbose page with many skipped items

\* GET /api/steam/owned?verbose=1 over a page one longer than the cap on the
\* samples, in groups of three, every import answered with a skip.
SampledList == [k \in 1..(SampleCap + 1) |-> k]
SampledRequests ==
  {OwnedRq(TRUE, TRUE, QInt(SampleCap + 1), QAbsent, QInt(3), QAbsent, QAbsent,
           TRUE, 0)}
SkipAnswers == {RespNoData, RespDuplicate}

NextSampled ==
  \/ OwnedReceive
  \/ OwnedListArrivesWith(SampledList)
  \/ \E a \in DOMAIN mst, o \in SkipAnswers : OwnedFetchSettles(a, o)
  \/ \E a \in DOMAIN mst : OwnedBodyRead(a)
  \/ OwnedGroupSettled

InitSampled == InitRunner /\ rq \in SampledRequests /\ DO_NOT_IMPORT = {}
SpecSampled == InitSampled /\ [][NextSampled]_vars

\* ============================================== claims: the debug samples

SkipReasons == {"ALREADY_IMPORTED", "NO_APPDETAILS", "SKIP_OTHER"}

\* C21: in verbose mode no skip-reason category ever holds more than 8
\* samples, in the accumulator and in the 200 result, whatever the order in
\* which the members of a group are classified; the counters of skipBreakdown
\* count every skipped item, so their sum is the number of skipped items.
C21_SamplesCapped ==
  /\ \A r \in SkipReasons : Len(samples[r]) <= SampleCap
  /\ skipBreakdown["ALREADY_IMPORTED"] + skipBreakdown["NO_APPDETAILS"]
       + skipBreakdown["SKIP_OTHER"] = Len(skipped)
  /\ OwnedOk /\ opc = "done" /\ rq.verbose =>
       /\ \A r \in SkipReasons : Len(resp.body.skipSamples[r]) <= SampleCap
       /\ resp.body.skipBreakdown["ALREADY_IMPORTED"]
            + resp.body.skipBreakdown["NO_APPDETAILS"]
            + resp.body.skipBreakdown["SKIP_OTHER"] = resp.body.skippedCount

\* A verbose result in which one category was hit more often than the cap:
\* 8 samples kept, 9 items counted.
C21_Witness ==
  /\ OwnedOk /\ opc = "done" /\ rq.verbose
  /\ Len(resp.body.skipSamples["NO_APPDETAILS"]) = SampleCap
  /\ resp.body.skipBreakdown["NO_APPDETAILS"] = SampleCap + 1
  /\ resp.body.skippedCount = SampleCap + 1

\* ======================================== fetchAppDetails (lib/steam.ts)

\* The attempt matrix: filtered or full parameters, without or with the
\* mature-content cookies.
Attempt(fields, cookies) == [fields |-> fields, cookies |-> cookies]
AttemptMatrix == <<Attempt("filtered", FALSE), Attempt("full", FALSE),
                   Attempt("filtered", TRUE), Attempt("full", TRUE)>>

AgeGateSleepMs == 1200
AgeGateJitterMs == 400
ServerErrorSleepMs == 400
FinalSleepMs == 1500

\* What getText produces: a status and a body, or a thrown network error. The
\* body is JSON with an entry under the id that has a boolean success
\* ("flagged"), data and no success flag ("data"), neither ("empty"), JSON
\* without the id ("nokey"), or text that is not JSON ("text").
Got(status, body) == [kind |-> "response", status |-> status, body |-> body]
GotThrown == [kind |-> "throw", status |-> 0, body |-> ""]
GetTextOutcomes ==
  {Got(200, "flagged"), Got(200, "data"), Got(200, "empty"), Got(200, "nokey"),
   Got(403, "text"), Got(403, "flagged"), Got(500, "text"), Got(429, "text"),
   GotThrown}

\* j[id] exists
HasEntry(r) == r.kind = "response" /\ r.body \in {"flagged", "data", "empty"}

\* e && (typeof e.success === "boolean" || e?.data)
Carries_AnyEntry(r) == r.kind = "response" /\ r.body \in {"flagged", "data", "empty"}
Carries(r) == r.kind = "response" /\ r.body \in {"flagged", "data"}

\* What fetchAppDetails returns: the parsed body of request n, or the failure
\* envelope {[id]: {success: false, data: null}}.
ReturnedBody(n) == [kind |-> "body", n |-> n]
FailureEnvelope == [kind |-> "failure", n |-> 0]

\* fetchAppDetails is called and issues the first request.
DetailsCall ==
  /\ dpc = "idle"
  /\ dpc' = "request" /\ di' = 0
  /\ dreqs' = <<AttemptMatrix[1]>>
  /\ UNCHANGED <<dlast, dresps, dsleeps, dret, runnerVars, retryVars,
                 clientVars, importVars, raceVars,
                 stopVars,
                 slugVars, seedVars>>

\* After attempt i and its backoff: the next attempt, or the end of the loop:
\* with last.status 403 the sleep before the final try, else the failure
\* envelope.
DetailsGoOn(i, last, slept, settled) ==
  IF i < Len(AttemptMatrix) - 1
  THEN /\ di' = i + 1 /\ dpc' = "request"
       /\ dreqs' = Append(dreqs, AttemptMatrix[i + 2])
       /\ dsleeps' = slept
       /\ UNCHANGED dret
  ELSE IF last = 403
  THEN /\ dpc' = "finalSleep"
       /\ dsleeps' = Append(slept, [after |-> settled, ms |-> FinalSleepMs])
       /\ UNCHANGED <<di, dreqs, dret>>
  ELSE /\ dpc' = "returned" /\ dret' = FailureEnvelope
       /\ dsleeps' = slept
       /\ UNCHANGED <<di, dreqs>>

\* getText of attempt i settles: a thrown error leaves fetchAppDetails; a body
\* with a usable entry is returned; after a 403 or a 5xx the backoff sleep
\* starts; otherwise the loop goes on at once.
DetailsAttemptSettles(r, jitter) ==
  /\ dpc = "request"
  /\ dresps' = Append(dresps, r)
  /\ IF r.kind = "throw"
     THEN /\ dpc' = "thrown" /\ dret' = r
          /\ UNCHANGED <<di, dlast, dreqs, dsleeps>>
     ELSE /\ dlast' = r.status
          /\ IF Carries(r)
             THEN /\ dpc' = "returned" /\ dret' = ReturnedBody(Len(dreqs))
                  /\ UNCHANGED <<di, dreqs, dsleeps>>
             ELSE IF r.status = 403
             THEN /\ dpc' = "sleep"
                  /\ dsleeps' = Append(dsleeps,
                       [after |-> Len(dresps) + 1, ms |-> AgeGateSleepMs + jitter])
                  /\ UNCHANGED <<di, dreqs, dret>>
             ELSE IF r.status >= 500
             THEN /\ dpc' = "sleep"
                  /\ dsleeps' = Append(dsleeps,
                       [after |-> Len(dresps) + 1, ms |-> ServerErrorSleepMs])
                  /\ UNCHANGED <<di, dreqs, dret>>
             ELSE DetailsGoOn(di, r.status, dsleeps, Len(dresps) + 1)
  /\ UNCHANGED <<runnerVars, retryVars, clientVars, importVars, raceVars,
                 stopVars,
                 slugVars, seedVars>>

\* The backoff sleep is over.
DetailsSleepElapsed ==
  /\ dpc = "sleep"
  /\ DetailsGoOn(di, dlast, dsleeps, Len(dresps))
  /\ UNCHANGED <<dlast, dresps, runnerVars, retryVars, clientVars, importVars,
                 raceVars, stopVars,
                 slugVars, seedVars>>

\* The longer sleep is over: the final request, full and with cookies.
DetailsFinalSleepElapsed ==
  /\ dpc = "finalSleep"
  /\ dpc' = "finalRequest"
  /\ dreqs' = Append(dreqs, Attempt("full", TRUE))
  /\ UNCHANGED <<di, dlast, dresps, dsleeps, dret, runnerVars, retryVars,
                 clientVars, importVars, raceVars,
                 stopVars,
                 slugVars, seedVars>>

\* getText of the final request settles.
DetailsFinalSettles(r) ==
  /\ dpc = "finalRequest"
  /\ dresps' = Append(dresps, r)
  /\ IF r.kind = "throw"
     THEN dpc' = "thrown" /\ dret' = r
     ELSE /\ dpc' = "returned"
          /\ dret' = IF Carries(r) THEN ReturnedBody(Len(dreqs))
                     ELSE FailureEnvelope
  /\ UNCHANGED <<di, dlast, dreqs, dsleeps, runnerVars, retryVars, clientVars,
                 importVars, raceVars,
                 stopVars,
                 slugVars, seedVars>>

NextDetails ==
  \/ DetailsCall
  \/ \E r \in GetTextOutcomes, jitter \in {0, AgeGateJitterMs - 1} :
       DetailsAttemptSettles(r, jitter)
  \/ DetailsSleepElapsed
  \/ DetailsFinalSleepElapsed
  \/ \E r \in GetTextOutcomes : DetailsFinalSettles(r)

InitDetails ==
  RunnersIdle /\ RetryIdle /\ ClientIdle /\ ImportIdle /\ RaceIdle /\ OtherIdle
SpecDetails == InitDetails /\ [][NextDetails]_vars

\* =========================================== claims: fetchAppDetails

DetailsDone == dpc \in {"returned", "thrown"}

\* The requests follow the attempt matrix, a fifth one is full with cookies,
\* and there are at most five.
DetailsOrder ==
  /\ Len(dreqs) <= Len(AttemptMatrix) + 1
  /\ \A k \in 1..Len(dreqs) :
       dreqs[k] = IF k <= Len(AttemptMatrix) THEN AttemptMatrix[k]
                  ELSE Attempt("full", TRUE)

\* All sleeps taken after request k settled, added up.
RECURSIVE SleptAfter(_, _)
SleptAfter(sl, k) ==
  IF sl = <<>> THEN 0
  ELSE (IF Head(sl).after = k THEN Head(sl).ms ELSE 0) + SleptAfter(Tail(sl), k)

\* A request that follows an attempt answered 403 or 5xx was preceded by a
\* sleep; the fifth request is made only after a fourth answered 403, is
\* always made then, and waits longer than any attempt before it.
DetailsWaits ==
  /\ \A k \in 1..Len(dresps) :
       /\ k < Len(dreqs)
       /\ dresps[k].status = 403 \/ dresps[k].status >= 500
       => SleptAfter(dsleeps, k) > 0
  /\ Len(dreqs) = Len(AttemptMatrix) + 1 =>
       /\ dresps[Len(AttemptMatrix)].status = 403
       /\ \A k \in 1..(Len(AttemptMatrix) - 1) :
            SleptAfter(dsleeps, k) < SleptAfter(dsleeps, Len(AttemptMatrix))
  /\ dpc = "returned" /\ dret = FailureEnvelope /\ Len(dresps) = Len(AttemptMatrix)
       => dresps[Len(AttemptMatrix)].status # 403

\* The first request whose response has an entry under the id (0: none).
FirstEntry ==
  IF \E k \in 1..Len(dresps) : HasEntry(dresps[k])
  THEN CHOOSE k \in 1..Len(dresps) :
         HasEntry(dresps[k]) /\ \A m \in 1..(k - 1) : ~HasEntry(dresps[m])
  ELSE 0

\* C22 (as stated): the requests follow the order of the matrix with the
\* waits, the final request is made only after a 403, at most five requests
\* are issued, and fetchAppDetails returns the first response that carries an
\* entry keyed by the id, else the failure envelope.
C22_Original ==
  /\ DetailsOrder
  /\ DetailsWaits
  /\ DetailsDone =>
       /\ dpc = "returned"
       /\ dret = IF FirstEntry > 0 THEN ReturnedBody(FirstEntry)
                 ELSE FailureEnvelope

\* The entry fetchAppDetails accepts has a boolean success flag or data.
Accepted(r) == r.kind = "response" /\ r.body \in {"flagged", "data"}

\* C22 (amended): order, waits and the bound of five requests as stated;
\* fetchAppDetails returns the first response whose entry under the id has a
\* boolean success flag or data, and issues no request after it; if no
\* response has one it returns the failure envelope; if a request fails with
\* a network error, that error leaves fetchAppDetails and no further request
\* is issued.
C22_Amended ==
  /\ DetailsOrder
  /\ DetailsWaits
  /\ \A k \in 1..Len(dresps) :
       Accepted(dresps[k]) \/ dresps[k].kind = "throw" =>
         k = Len(dresps) /\ Len(dreqs) = k /\ DetailsDone
  /\ DetailsDone =>
       LET last == dresps[Len(dresps)]
       IN  IF last.kind = "throw" THEN dpc = "thrown"
           ELSE /\ dpc = "returned"
                /\ dret = IF Accepted(last) THEN ReturnedBody(Len(dresps))
                          ELSE FailureEnvelope

\* Four attempts were answered 403 with an entry that has neither flag nor
\* data or with no entry, and the final request brought the entry.
C22_Witness ==
  /\ dpc = "returned" /\ dret = ReturnedBody(Len(AttemptMatrix) + 1)
  /\ \E k \in 1..Len(AttemptMatrix) : dresps[k].body = "empty"

\* ================================= ImportRunner: run, stop and a new run

MaxRuns == 2
MaxPages == 2

\* What a page of /api/steam/owned reports: its counts and eligibleOwned.
PageCounts == {[total |-> MaxPages, imported |-> 1, skipped |-> 0, errors |-> 0],
               [total |-> MaxPages, imported |-> 0, skipped |-> 1, errors |-> 1]}

\* A loop awaits one of its promises.
Pending(k) == sloops[k].pc \in {"fetch", "json"}

\* catch and finally of run(): setRunning(false); abortRef.current = null.
Finish(loops, k) == [loops EXCEPT ![k].pc = "ended"]

\* The form is submitted (the button is enabled while running is false):
\* run() resets the stats, stores a new controller and issues the first fetch
\* with its signal.
StopperRun ==
  /\ ~srunning /\ Len(sloops) < MaxRuns
  /\ LET k == Len(sloops) + 1
     IN  /\ sloops' = Append(sloops,
              [pc |-> "fetch", sig |-> k, offset |-> 0, firstPass |-> TRUE,
               overall |-> NoCounts])
         /\ abortRef' = k
         /\ slog' = Append(slog, [loop |-> k, sig |-> k, offset |-> 0,
                                  stopped |-> FALSE])
  /\ srunning' = TRUE
  /\ sstats' = NoCounts
  /\ UNCHANGED <<aborted, satStop, runnerVars, retryVars, clientVars,
                 importVars, raceVars, detailVars,
                 slugVars, seedVars>>

\* fetch resolves with the response: the loop goes on to res.json(). A fetch
\* whose signal is aborted never resolves.
StopperFetchResolves(k) ==
  /\ sloops[k].pc = "fetch" /\ sloops[k].sig \notin aborted
  /\ sloops' = [sloops EXCEPT ![k].pc = "json"]
  /\ UNCHANGED <<abortRef, aborted, srunning, sstats, slog, satStop, runnerVars,
                 retryVars, clientVars, importVars, raceVars, detailVars,
                 slugVars, seedVars>>

\* res.json() resolves: the counts are added, the stats are set; without
\* hasMore the loop breaks, else it fetches the next page with the signal of
\* whatever controller abortRef holds now; an aborted signal rejects the fetch
\* at once and ends the loop.
StopperJsonResolves(k, json, more) ==
  /\ sloops[k].pc = "json"
  /\ more => sloops[k].offset + 1 < MaxPages
  /\ LET l == sloops[k]
         overall == [total |-> IF l.firstPass THEN json.total ELSE l.overall.total,
                     imported |-> l.overall.imported + json.imported,
                     skipped |-> l.overall.skipped + json.skipped,
                     errors |-> l.overall.errors + json.errors]
         ends == ~more \/ abortRef \in aborted
     IN  /\ sstats' = overall
         /\ sloops' = [sloops EXCEPT ![k] =
              [pc |-> IF ends THEN "ended" ELSE "fetch",
               sig |-> IF ends THEN l.sig ELSE abortRef,
               offset |-> IF more THEN l.offset + 1 ELSE l.offset,
               firstPass |-> FALSE, overall |-> overall]]
         /\ slog' = IF ends THEN slog
                    ELSE Append(slog, [loop |-> k, sig |-> abortRef,
                                       offset |-> l.offset + 1,
                                       stopped |-> k \in aborted])
         /\ IF ends THEN srunning' = FALSE /\ abortRef' = 0
            ELSE UNCHANGED <<srunning, abortRef>>
  /\ UNCHANGED <<aborted, satStop, runnerVars, retryVars, clientVars,
                 importVars, raceVars, detailVars,
                 slugVars, seedVars>>

\* fetch or res.json() rejects for a reason of its own (the network, a body
\* that is not JSON): catch, finally.
StopperFails(k) ==
  /\ Pending(k)
  /\ sloops' = Finish(sloops, k)
  /\ srunning' = FALSE /\ abortRef' = 0
  /\ UNCHANGED <<aborted, sstats, slog, satStop, runnerVars, retryVars,
                 clientVars, importVars, raceVars, detailVars,
                 slugVars, seedVars>>

\* Whether an abort can miss a loop: a pending fetch is always rejected; a
\* pending res.json() is rejected while the body is still being read, and
\* resolves all the same once the body is complete.
CanMiss_Never(l) == FALSE
CanMiss(l) == l.pc = "json"

\* The stop button is pressed (it is enabled while running is true): stop()
\* aborts the controller in abortRef and clears the running flag; the loops
\* whose promise the abort rejects run their catch and finally before the
\* next event; missed holds the loops whose res.json() the abort came too
\* late for.
StopperStop(missed) ==
  /\ srunning
  /\ LET c == abortRef
         hit == {k \in DOMAIN sloops : Pending(k) /\ sloops[k].sig = c /\ c # 0}
     IN  /\ missed \subseteq {k \in hit : CanMiss(sloops[k])}
         /\ aborted' = IF c = 0 THEN aborted ELSE aborted \cup {c}
         /\ satStop' = IF c = 0 \/ c \in DOMAIN satStop THEN satStop
                       ELSE [x \in DOMAIN satStop \cup {c} |->
                               IF x = c THEN sstats ELSE satStop[x]]
         /\ sloops' = [k \in DOMAIN sloops |->
                         IF k \in hit \ missed THEN [sloops[k] EXCEPT !.pc = "ended"]
                         ELSE sloops[k]]
         /\ abortRef' = IF hit \ missed # {} THEN 0 ELSE abortRef
  /\ srunning' = FALSE
  /\ UNCHANGED <<sstats, slog, runnerVars, retryVars, clientVars,
                 importVars, raceVars, detailVars,
                 slugVars, seedVars>>

NextStopper ==
  \/ StopperRun
  \/ \E k \in DOMAIN sloops : StopperFetchResolves(k)
  \/ \E k \in DOMAIN sloops, json \in PageCounts, more \in BOOLEAN :
       StopperJsonResolves(k, json, more)
  \/ \E k \in DOMAIN sloops : StopperFails(k)
  \/ \E missed \in SUBSET (DOMAIN sloops) : StopperStop(missed)

InitStopper ==
  RunnersIdle /\ RetryIdle /\ ClientIdle /\ ImportIdle /\ RaceIdle /\ OtherIdle
SpecStopper == InitStopper /\ [][NextStopper]_vars

\* ======================================= claims: stopping the ImportRunner

\* C23 (as stated): once stop() has aborted the page request of a run, the
\* counts of that page are not added to the totals and the totals of the
\* pages completed before are kept (until a new run resets them), and the
\* stopped loop issues no further page request.
C23_Claim ==
  /\ \A c \in aborted : c = Len(sloops) => sstats = satStop[c]
  /\ \A i \in DOMAIN slog : ~slog[i].stopped

\* A loop with a page request that has not been aborted.
Live(k) == Pending(k) /\ sloops[k].sig \notin aborted

\* C30 (as stated): at most one run loop has a page request under way, and
\* while a loop has one, abortRef holds the controller that loop created and
\* the running flag is true.
C30_Claim ==
  /\ Cardinality({k \in DOMAIN sloops : Live(k)}) <= 1
  /\ \A k \in DOMAIN sloops : Live(k) => abortRef = k /\ srunning

\* ============================================ normalizeGame and the slug

\* normalizeGame of part_010: the title is the name or app-<id>, and the slug
\* is the slugified title alone (generateGameSlug is defined but not called).
normalizeGame_010(appId, d) ==
  LET title == Coalesce(d.name, <<"a", "p", "p", "-">> \o Digits(appId))
  IN  [steamAppId |-> appId, title |-> title, slug |-> slugify(title)]

MaxSlugCalls == 2

\* External ids and names: equal names, names that differ only in what
\* slugify drops, names ending in digits, the empty and the missing name.
SlugIds == {1, 2, 11, 12}
SlugNames ==
  {Null, <<>>, <<"a">>, <<" ", "A", "'">>, <<"a", "-", "1">>, <<"a", " ", "1", "!">>,
   <<"a", "p", "p">>, <<"A", "p", "p", " ", "1">>}

NormalizersFiles == {"normalizers", "part_010", "part_011"}

NormalizeWith(file, appId, d) ==
  IF file = "part_010" THEN normalizeGame_010(appId, d)
  ELSE IF file = "part_011" THEN normalizeGame_011(appId, d)
  ELSE normalizeGame(appId, d)

\* One call of normalizeGame, as importOne makes it for an item.
NormalizeCall(appId, name) ==
  /\ Len(ncalls) < MaxSlugCalls
  /\ ncalls' = Append(ncalls,
       [appId |-> appId, name |-> name,
        out |-> NormalizeWith(nlib, appId, [name |-> name])])
  /\ UNCHANGED <<nlib, runnerVars, retryVars, clientVars, importVars, raceVars,
                 detailVars, stopVars, seedVars>>

NextSlug == \E appId \in SlugIds, name \in SlugNames : NormalizeCall(appId, name)

InitSlug ==
  /\ RunnersIdle /\ RetryIdle /\ ClientIdle /\ ImportIdle /\ RaceIdle
  /\ DetailIdle /\ StopIdle /\ SeedIdle
  /\ nlib \in NormalizersFiles /\ ncalls = <<>>
SpecSlug == InitSlug /\ [][NextSlug]_vars

\* C24 (as stated): two calls of normalizeGame with distinct positive ids
\* return different slugs, whatever the titles.
C24_Claim ==
  \A i, j \in DOMAIN ncalls :
    ncalls[i].appId # ncalls[j].appId => ncalls[i].out.slug # ncalls[j].out.slug

\* ================================= an item whose three attempts all fail

\* A second network error, so that the error thrown can be told apart.
ThrownHangUp == [Thrown EXCEPT !.text = "socket hang up"]

\* What an attempt of the item's fetch may produce: importOne's 200, its 422,
\* its 500, a gateway's 502, a 500 without body, or a network error.
ExhaustOutcomes ==
  {RespOk, RespNoData, RespFailed, RespBadGateway, RespEmpty, Thrown, ThrownHangUp}

\* The fetch of the item settles; attempts keeps what each attempt produced.
ExhaustFetchSettles(a, o) ==
  /\ OwnedFetchSettlesWith(a, o)
  /\ attempts' = Append(attempts, o)
  /\ UNCHANGED <<rpc, ri, sleeps, rres, clientVars, importVars, raceVars, otherVars>>

NextExhaust ==
  \/ OwnedReceive
  \/ OwnedListArrives
  \/ \E a \in DOMAIN mst, o \in ExhaustOutcomes : ExhaustFetchSettles(a, o)
  \/ \E a \in DOMAIN mst : OwnedRetryElapsed(a)
  \/ \E a \in DOMAIN mst : OwnedBodyRead(a)
  \/ \E a \in DOMAIN mst : OwnedItemDelayElapsed(a)
  \/ OwnedGroupSettled
  \/ OwnedPageDelayElapsed

InitExhaust == InitRunner /\ rq \in ItemRequests /\ DO_NOT_IMPORT = {}
SpecExhaust == InitExhaust /\ [][NextExhaust]_vars

\* All attempts of the item's withRetryFetch were made and each one failed.
AllFailed == Len(attempts) = Tries /\ \A k \in 1..Tries : IsRetryable(attempts[k])

BatchOk == rq.runner = "batch" /\ resp.status = 200

\* The distinct valid positive ids of the request body.
RequestedIds ==
  {rq.appIds[k].v : k \in {j \in DOMAIN rq.appIds : rq.appIds[j].num /\ rq.appIds[j].v > 0}}

\* C26 (as stated): in a 200 result of the batch endpoint total = requested =
\* the number of distinct valid positive ids, denylistedCount + processed =
\* total, importedCount + skippedCount + errorCount = processed, each id that
\* is not denied is in exactly one of the lists, and no denied id is passed
\* to the importer.
C26_Claim ==
  /\ rq.runner = "batch" =>
       \A a \in DOMAIN mst : mst[a].pc # "pending" => a \notin DO_NOT_IMPORT
  /\ BatchOk =>
       LET b == resp.body
       IN  /\ b.total = Cardinality(RequestedIds) /\ b.requested = b.total
           /\ b.denylistedCount + b.processed = b.total
           /\ b.importedCount + b.skippedCount + b.errorCount = b.processed
           /\ \A a \in RequestedIds \ DO_NOT_IMPORT : Occurrences(b, a) = 1
           /\ \A a \in RequestedIds \cap DO_NOT_IMPORT : Occurrences(b, a) = 0

\* ====================================== claims: the cursor of a page result

\* C27 (as stated): a 200 result of the owned-list page import with
\* hasMore = true has nextOffset > offset, whatever the limit, offset and
\* concurrency of the query are.
C27_Claim ==
  OwnedOk /\ resp.body.hasMore => JsLess(resp.body.offset, resp.body.nextOffset)

\* C28 (as stated): in a 200 result of the owned-list page import processed =
\* importedCount + skippedCount + errorCount, and every id of the page slice
\* was handed to the importer by exactly one member and recorded by it, for
\* every value of the concurrency parameter.
C28_Claim ==
  OwnedOk =>
    /\ resp.body.processed =
         resp.body.importedCount + resp.body.skippedCount + resp.body.errorCount
    /\ \A a \in Range(loc.page) :
         /\ a \in DOMAIN mst /\ Settled(a)
         /\ CountIn(loc.page, a) = 1
         /\ Occurrences(resp.body, a) = 1

\* ================= importOne: the vocabulary and the links, several imports

MaxSeeds == 3

\* What the imports may bring: app 1 with tags a and b on the platform pc,
\* app 1 after the upstream dropped b and the platform, and app 2.
SeedPayloads ==
  {[appId |-> 1, tagNames |-> {"a", "b"}, platformNames |-> {"pc"}],
   [appId |-> 1, tagNames |-> {"a"}, platformNames |-> {}],
   [appId |-> 2, tagNames |-> {"b"}, platformNames |-> {"pc"}]}

\* tag.createMany / platform.createMany with skipDuplicates: the names that
\* are missing are inserted, nothing else is touched.
createMany_Replace(table, names) == names
createMany(table, names) == table \cup names

\* findMany({ where: { name: { in: names } } })
findMany(table, names) == table \cap names

\* importOne has returned: its locals are gone, the request is remembered.
Ended(q, pc) ==
  [q EXCEPT !.pc = pc, !.tags = {}, !.platforms = {}, !.looked = {},
            !.work = NoTerms]

\* A request arrives; the details are fetched and normalized.
SeedReceive(appId, tagNames, platformNames) ==
  /\ Len(sp) < MaxSeeds
  /\ sp' = Append(sp, [pc |-> "seedTags", appId |-> appId, tagNames |-> tagNames,
                       platformNames |-> platformNames, tags |-> {},
                       platforms |-> {}, looked |-> {}, work |-> NoTerms])
  /\ UNCHANGED <<sterms, slinks>>

\* Step 4: if (tagNames.length) await prisma.tag.createMany(...)
SeedTags(p) ==
  /\ sp[p].pc = "seedTags"
  /\ sterms' = [sterms EXCEPT !.tags = createMany(@, sp[p].tagNames)]
  /\ sp' = [sp EXCEPT ![p].pc = "seedPlatforms"]
  /\ UNCHANGED slinks

\* if (platformNames.length) await prisma.platform.createMany(...)
SeedPlatforms(p) ==
  /\ sp[p].pc = "seedPlatforms"
  /\ sterms' = [sterms EXCEPT !.platforms = createMany(@, sp[p].platformNames)]
  /\ sp' = [sp EXCEPT ![p].pc = "find"]
  /\ UNCHANGED slinks

\* Step 5: the two findMany of Promise.all answer, in either order; when both
\* have, the transaction is opened and game.upsert is under way.
SeedFind(p, kind) ==
  /\ sp[p].pc = "find" /\ kind \notin sp[p].looked
  /\ LET looked == sp[p].looked \cup {kind}
         q == IF kind = "tags"
              THEN [sp[p] EXCEPT !.tags = findMany(sterms.tags, sp[p].tagNames)]
              ELSE [sp[p] EXCEPT !.platforms =
                      findMany(sterms.platforms, sp[p].platformNames)]
     IN  sp' = [sp EXCEPT ![p] =
                  [q EXCEPT !.looked = looked,
                            !.pc = IF looked = {"tags", "platforms"}
                                   THEN "linkTags" ELSE "find"]]
  /\ UNCHANGED <<sterms, slinks>>

\* Step 6, after game.upsert: tx.gameTag.createMany with skipDuplicates. A row
\* whose tag is gone violates the foreign key and fails the transaction.
SeedLinkTags(p) ==
  /\ sp[p].pc = "linkTags"
  /\ IF sp[p].tags \subseteq sterms.tags
     THEN sp' = [sp EXCEPT ![p].pc = "linkPlatforms",
                           ![p].work.tags = {<<sp[p].appId, n>> : n \in sp[p].tags}]
     ELSE sp' = [sp EXCEPT ![p] = Ended(sp[p], "failed")]
  /\ UNCHANGED <<sterms, slinks>>

\* tx.gamePlatform.createMany with skipDuplicates.
SeedLinkPlatforms(p) ==
  /\ sp[p].pc = "linkPlatforms"
  /\ IF sp[p].platforms \subseteq sterms.platforms
     THEN sp' = [sp EXCEPT ![p].pc = "commit",
                           ![p].work.platforms =
                             {<<sp[p].appId, n>> : n \in sp[p].platforms}]
     ELSE sp' = [sp EXCEPT ![p] = Ended(sp[p], "failed")]
  /\ UNCHANGED <<sterms, slinks>>

\* The transaction commits: its link rows become visible.
SeedCommit(p) ==
  /\ sp[p].pc = "commit"
  /\ slinks' = [tags |-> createMany(slinks.tags, sp[p].work.tags),
                platforms |-> createMany(slinks.platforms, sp[p].work.platforms)]
  /\ sp' = [sp EXCEPT ![p] = Ended(sp[p], "done")]
  /\ UNCHANGED sterms

\* A statement of importOne fails: an open transaction is rolled back, what
\* was seeded outside it stays, and the catch answers.
SeedFails(p) ==
  /\ sp[p].pc \notin {"done", "failed"}
  /\ sp' = [sp EXCEPT ![p] = Ended(sp[p], "failed")]
  /\ UNCHANGED <<sterms, slinks>>

SeedFrame ==
  UNCHANGED <<runnerVars, retryVars, clientVars, importVars, raceVars, detailVars,
              stopVars, slugVars>>

NextSeed ==
  \/ \E d \in SeedPayloads :
       SeedReceive(d.appId, d.tagNames, d.platformNames) /\ SeedFrame
  \/ \E p \in DOMAIN sp : SeedTags(p) /\ SeedFrame
  \/ \E p \in DOMAIN sp : SeedPlatforms(p) /\ SeedFrame
  \/ \E p \in DOMAIN sp, kind \in {"tags", "platforms"} : SeedFind(p, kind) /\ SeedFrame
  \/ \E p \in DOMAIN sp : SeedLinkTags(p) /\ SeedFrame
  \/ \E p \in DOMAIN sp : SeedLinkPlatforms(p) /\ SeedFrame
  \/ \E p \in DOMAIN sp : SeedCommit(p) /\ SeedFrame
  \/ \E p \in DOMAIN sp : SeedFails(p) /\ SeedFrame

InitSeed ==
  /\ RunnersIdle /\ RetryIdle /\ ClientIdle /\ ImportIdle /\ RaceIdle
  /\ DetailIdle /\ StopIdle /\ SlugIdle /\ SeedIdle
SpecSeed == InitSeed /\ [][NextSeed]_vars

\* ============================== claims: the vocabulary and the links grow

\* The rows an import got from findMany are in the tables.
LookedUpExist ==
  \A p \in DOMAIN sp :
    sp[p].pc \in {"find", "linkTags", "linkPlatforms", "commit"} =>
      /\ sp[p].tags \subseteq sterms.tags
      /\ sp[p].platforms \subseteq sterms.platforms

TablesGrow ==
  /\ sterms.tags \subseteq sterms'.tags
  /\ sterms.platforms \subseteq sterms'.platforms
  /\ slinks.tags \subseteq slinks'.tags
  /\ slinks.platforms \subseteq slinks'.platforms

\* C29: no step of an import removes a term or a link, so both tables only
\* grow over any interleaving of imports, and the terms an import looked up
\* before its transaction exist when it writes its link rows.
C29_OnlyGrow == []LookedUpExist /\ [][TablesGrow]_vars

\* C29 witness: app 1 was imported with tags a and b and then, while another
\* import was running, again with tag a only: the link to b is still there.
C29_Witness ==
  \E p, q, r \in DOMAIN sp :
    /\ p < r /\ r < q
    /\ sp[p].pc = "done" /\ sp[p].appId = 1 /\ sp[p].tagNames = {"a", "b"}
    /\ sp[r].pc = "linkTags" /\ sp[r].appId = 2
    /\ sp[q].pc = "done" /\ sp[q].appId = 1 /\ sp[q].tagNames = {"a"}
    /\ <<1, "b">> \in slinks.tags

====
